---------------------------- MODULE Spec2Model ----------------------------
(***************************************************************************)
(* Model of the multiattack classifier and DPR calculator of legendlore   *)
(* (src/actions.py, src/calc.py).                                          *)
(*                                                                         *)
(* Texts are TLA+ strings, read character by character with SubSeq/Len.    *)
(* Regular expressions are syntax trees matched by a backtracking matcher  *)
(* that follows the priority order of Python's re module (greedy           *)
(* repetition, leftmost alternative first).                                *)
(* DPR values are exact: an integer counting 1/40ths (hit odds are         *)
(* 20ths, damage averages are halves).                                     *)
(***************************************************************************)
EXTENDS Integers, Sequences, FiniteSets, TLC

VARIABLES actions, last, form, match, validated, target_ac, result,
          arg_name, found, confidence, catalog, repeated, calc,
          heap, creatures, objects, parsed, outcome,
          lines, line_no, in_sources, text_lines, sources

vars == <<actions, last, form, match, validated, target_ac, result,
          arg_name, found, confidence, catalog, repeated, calc,
          heap, creatures, objects, parsed, outcome,
          lines, line_no, in_sources, text_lines, sources>>

\* The variables of the classifier and the calculator
actions_vars == <<actions, last, form, match, validated, target_ac, result,
                  arg_name, found, confidence, catalog, repeated, calc>>
\* The variables of the monsters, of the collections and of the spell parser
monster_vars == <<heap, creatures>>
collection_vars == <<objects, parsed>>
parser_vars == <<lines, line_no, in_sources, text_lines, sources>>
library_vars == <<heap, creatures, objects, parsed, outcome,
                  lines, line_no, in_sources, text_lines, sources>>

(***************************************************************************)
(* Python values                                                           *)
(***************************************************************************)
\* Python's None / a present value: an optional is a sequence of length <= 1.
None == <<>>
Some(x) == <<x>>
IsNone(o) == Len(o) = 0
Val(o) == o[1]

\* Outcome of a call: a returned value, or an exception reaching the caller.
Return(v) == [kind |-> "return", v |-> v]
Raise(e) == [kind |-> "raise", exc |-> e]

(***************************************************************************)
(* Characters and strings                                                  *)
(***************************************************************************)
Ch(s, i) == SubSeq(s, i, i)

LowerLetters ==
    {"a","b","c","d","e","f","g","h","i","j","k","l","m",
     "n","o","p","q","r","s","t","u","v","w","x","y","z"}
UpperLetters ==
    {"A","B","C","D","E","F","G","H","I","J","K","L","M",
     "N","O","P","Q","R","S","T","U","V","W","X","Y","Z"}
Digits == {"0","1","2","3","4","5","6","7","8","9"}

UpperSeq == "ABCDEFGHIJKLMNOPQRSTUVWXYZ"
LowerSeq == "abcdefghijklmnopqrstuvwxyz"

\* The lower-case letter of every upper-case letter
LowerOf ==
    [c \in UpperLetters |-> Ch(LowerSeq, CHOOSE i \in 1..Len(UpperSeq) : Ch(UpperSeq, i) = c)]

\* str.lower() on one character
LowerCh(c) == IF c \in UpperLetters THEN LowerOf[c] ELSE c

RECURSIVE LowerFrom(_, _)
\* the characters of s from position i on, in lower case
LowerFrom(s, i) ==
    IF i > Len(s) THEN "" ELSE LowerCh(Ch(s, i)) \o LowerFrom(s, i + 1)

\* str.lower()
Lower(s) == LowerFrom(s, 1)

RECURSIVE RStrip(_, _)
\* str.rstrip(c): every trailing occurrence of the character c is removed
RStrip(s, c) ==
    IF Len(s) > 0 /\ Ch(s, Len(s)) = c
    THEN RStrip(SubSeq(s, 1, Len(s) - 1), c)
    ELSE s

\* Python's `sub in s` for strings
Contains(s, sub) ==
    \E i \in 1..(Len(s) - Len(sub) + 1) : SubSeq(s, i, i + Len(sub) - 1) = sub

(***************************************************************************)
(* Regular expressions (the subset of Python's re used by actions.py)      *)
(***************************************************************************)
Lit(s) == [t |-> "lit", s |-> s]                      \* literal characters
Cls(c) == [t |-> "cls", c |-> c]                      \* one character of a class
Cat(rs) == [t |-> "cat", rs |-> rs]                   \* concatenation
Alt(rs) == [t |-> "alt", rs |-> rs]                   \* r1|r2|...
Rep(r, lo, hi) == [t |-> "rep", r |-> r, lo |-> lo, hi |-> hi]  \* greedy r{lo,hi}
Grp(name, r) == [t |-> "grp", name |-> name, r |-> r] \* (?P<name>r)
Unbounded == 0 - 1
Star(r) == Rep(r, 0, Unbounded)
Plus(r) == Rep(r, 1, Unbounded)
Opt(r) == Rep(r, 0, 1)

WordChars == LowerLetters \cup UpperLetters \cup Digits \cup {"_"}
SpaceChars == {" ", "\t", "\n", "\r", "\f"}

\* \w, \s, [^,.] and . (no DOTALL flag: every character but the newline)
InClass(c, ch) ==
    CASE c = "w" -> ch \in WordChars
      [] c = "s" -> ch \in SpaceChars
      [] c = "ncd" -> ch \notin {",", "."}
      [] c = "dot" -> ch # "\n"

\* How many characters of class c follow from position i, at most hi of them
\* (hi < 0: no limit)
ClassRun(c, s, i, hi) ==
    LET bad == {k \in i..Len(s) : ~InClass(c, Ch(s, k))}
        stop == IF bad = {} THEN Len(s) + 1 ELSE CHOOSE k \in bad : \A b \in bad : k <= b
    IN IF hi >= 0 /\ stop - i > hi THEN hi ELSE stop - i

\* The matcher.  An outcome [pos, caps] is one way of having matched so
\* far: the position reached and the span <<first, last>> of each group
\* captured (<<>> for a group that took no part).  Run gives every
\* outcome of matching r after each of the outcomes outs, in the order in
\* which Python's backtracking matcher would try them (greedy repetition:
\* more iterations first; alternation: left to right), so the match found is
\* the first outcome of the whole pattern that satisfies the caller.
RECURSIVE Run(_, _, _)
RECURSIVE Run1(_, _, _)
RECURSIVE FlatMap(_, _, _, _, _)
RECURSIVE RunCat(_, _, _, _, _)
RECURSIVE RunAlt(_, _, _, _)

\* the outcomes moved n characters on
Advance(outs, n) ==
    [k \in 1..Len(outs) |-> [pos |-> outs[k].pos + n, caps |-> outs[k].caps]] \o <<>>

Run(r, s, outs) ==
    CASE r.t = "lit" ->
           Advance(SelectSeq(outs, LAMBDA o : /\ o.pos + Len(r.s) - 1 <= Len(s)
                                               /\ SubSeq(s, o.pos, o.pos + Len(r.s) - 1) = r.s),
                   Len(r.s))
      [] r.t = "cls" ->
           Advance(SelectSeq(outs, LAMBDA o : o.pos <= Len(s) /\ InClass(r.c, Ch(s, o.pos))), 1)
      [] OTHER -> FlatMap(r, s, outs, 1, Len(outs))

\* Run1(r, s, outs[a]) \o ... \o Run1(r, s, outs[b])
FlatMap(r, s, outs, a, b) ==
    IF a > b THEN <<>>
    ELSE IF a = b THEN Run1(r, s, outs[a])
    ELSE FlatMap(r, s, outs, a, (a + b) \div 2) \o FlatMap(r, s, outs, ((a + b) \div 2) + 1, b)

\* rs[a] ... rs[b] one after the other
RunCat(rs, a, b, s, outs) ==
    IF a > b THEN outs
    ELSE IF a = b THEN Run(rs[a], s, outs)
    ELSE LET half == RunCat(rs, a, (a + b) \div 2, s, outs)
         IN IF Len(half) = 0 THEN <<>>   \* no way to match the first half
            ELSE RunCat(rs, ((a + b) \div 2) + 1, b, s, half)

\* the alternatives rs[n], rs[n+1], ... tried in this order
RunAlt(rs, n, s, o) ==
    IF n > Len(rs) THEN <<>> ELSE Run(rs[n], s, <<o>>) \o RunAlt(rs, n + 1, s, o)

Run1(r, s, o) ==
    CASE r.t = "cat" -> RunCat(r.rs, 1, Len(r.rs), s, <<o>>)
      [] r.t = "alt" -> RunAlt(r.rs, 1, s, o)
      [] r.t = "grp" ->
           LET inner == Run(r.r, s, <<o>>)
           IN [k \in 1..Len(inner) |->
                  [pos |-> inner[k].pos,
                   caps |-> [inner[k].caps EXCEPT ![r.name] = <<o.pos, inner[k].pos - 1>>]]] \o <<>>
      [] r.t = "rep" /\ r.r.t = "cls" ->
           \* one character class repeated: the longest run first
           LET run == ClassRun(r.r.c, s, o.pos, r.hi)
           IN [k \in 1..(run - r.lo + 1) |-> [pos |-> o.pos + run - k + 1, caps |-> o.caps]] \o <<>>
      [] r.t = "rep" /\ r.r.t # "cls" ->
           \* one more iteration (which must consume something) before none
           LET once == IF r.hi = 0 THEN <<>>
                       ELSE SelectSeq(Run(r.r, s, <<o>>), LAMBDA x : x.pos > o.pos)
               again == [r EXCEPT !.lo = IF r.lo > 0 THEN r.lo - 1 ELSE 0,
                                  !.hi = IF r.hi > 0 THEN r.hi - 1 ELSE r.hi]
           IN Run(again, s, once) \o (IF r.lo = 0 THEN <<o>> ELSE <<>>)
      [] OTHER -> Run(r, s, <<o>>)

RECURSIVE GroupNames(_)
RECURSIVE GroupNamesSeq(_, _)
\* The named groups of a pattern, in pattern order (the order of groupdict()).
GroupNames(r) ==
    CASE r.t = "grp" -> <<r.name>> \o GroupNames(r.r)
      [] r.t = "cat" -> GroupNamesSeq(r.rs, 1)
      [] r.t = "alt" -> GroupNamesSeq(r.rs, 1)
      [] r.t = "rep" -> GroupNames(r.r)
      [] OTHER -> <<>>

GroupNamesSeq(rs, n) ==
    IF n > Len(rs) THEN <<>> ELSE GroupNames(rs[n]) \o GroupNamesSeq(rs, n + 1)

Range(f) == {f[x] : x \in DOMAIN f}

\* re.fullmatch(regexp, string): None, or a match object (string, groupdict).
\* The match is the first outcome that ends at the end of the string.
fullmatch(regexp, string) ==
    LET names == GroupNames(regexp)
        outs == Run(regexp, string, <<[pos |-> 1, caps |-> [n \in Range(names) |-> <<>>]]>>)
        full == SelectSeq(outs, LAMBDA o : o.pos = Len(string) + 1)
    IN IF Len(full) > 0
       THEN Some([string |-> string, names |-> names,
                  groupdict |-> [n \in Range(names) |->
                                    IF full[1].caps[n] = <<>> THEN None
                                    ELSE Some(SubSeq(string, full[1].caps[n][1], full[1].caps[n][2]))]])
       ELSE None

(***************************************************************************)
(* Parsing constants (src/actions.py, "parsing constants")                 *)
(***************************************************************************)
\* The keys of numberwords, in dict order
numberword_keys == <<"one", "once", "two", "twice", "three", "four", "five", "six">>

\* A lookup that gives every word its place among the keys
numberwords_by_place ==
    [w \in Range(numberword_keys) |->
        CHOOSE i \in 1..Len(numberword_keys) : numberword_keys[i] = w]

numberwords ==
    [w \in Range(numberword_keys) |->
        CASE w \in {"one", "once"} -> 1
          [] w \in {"two", "twice"} -> 2
          [] w = "three" -> 3
          [] w = "four" -> 4
          [] w = "five" -> 5
          [] w = "six" -> 6]

\* '|'.join(numberwords)
re_num == Alt([i \in 1..Len(numberword_keys) |-> Lit(numberword_keys[i])])
\* (?:a|its|his|her)? ?
re_article == Cat(<<Opt(Alt(<<Lit("a"), Lit("its"), Lit("his"), Lit("her")>>)), Opt(Lit(" "))>>)
\* (?P<mname>[^,.]+)
re_name == Grp("mname", Plus(Cls("ncd")))
\* (?P<total>{re_num})
re_total == Grp("total", re_num)
\* (?P<num{n}>{re_num})
re_count(n) == Grp("num" \o n, re_num)
\* (?P<type{n}>\w+(?:\s\w+)?)
re_type_word(n) == Grp("type" \o n, Cat(<<Plus(Cls("w")), Opt(Cat(<<Cls("s"), Plus(Cls("w"))>>))>>))
\* (?P<type{n}>[^,.]+)
re_type_phrase(n) == Grp("type" \o n, Plus(Cls("ncd")))

(***************************************************************************)
(* The `re` attribute of every AttackForm subclass                         *)
(***************************************************************************)
Centaur_re ==
    Lit("The centaur makes two attacks: one with its pike and one with its hooves or two with its longbow.")
Lamia_re ==
    Lit("The lamia makes two attacks: one with its claws and one with its dagger or Intoxicating Touch.")
\* the final dot is not escaped in the source: it matches any character but \n
Manticore_re ==
    Cat(<<Lit("The manticore makes three attacks: one with its bite and two with its claws or three with its tail spikes"),
          Cls("dot")>>)
Orc_re ==
    Cat(<<Lit("The orc makes two attacks with its greataxe or its spear"), Cls("dot")>>)
Devil_re ==
    Lit("The devil makes two attacks: one with its bite and one with its fork or two with its tail spines.")
Morkoth_re ==
    Cat(<<Lit("The morkoth makes three attacks: two with its bite and one with its tentacles or three with its bite"),
          Cls("dot")>>)
Marut_re == Lit("The marut makes two slam attacks.")
Hunter_re == Lit("The blood hunter attacks twice with a weapon.")
Sansuri_re == Lit("Sansuri makes two spear attacks.")
Generator_re == Lit("The generator makes two fist attacks or four dart attacks.")
Stomper_re ==
    Cat(<<Lit("Shockerstomper makes three Lightning Turret attacks and two Stomp attacks"), Cls("dot")>>)

Any_re ==
    Cat(<<re_name, Lit(" makes "), re_total, Lit(" "), Opt(Lit("weapon ")), Lit("attacks"), Opt(Lit("."))>>)
NumWithWeapon_re ==
    Cat(<<re_name, Lit(" attacks "), re_total, Lit(" with a weapon"), Opt(Lit("."))>>)
AnyMelee_re ==
    Cat(<<re_name, Lit(" makes "), re_count("1"), Lit(" melee "), Opt(Lit("weapon ")), Lit("attacks"),
          Opt(Lit("."))>>)
AnyRanged_re ==
    Cat(<<re_name, Lit(" makes "), re_count("1"), Lit(" ranged attacks"), Opt(Lit("."))>>)
MeleeOrRanged_re ==
    Cat(<<re_name, Lit(" makes "), re_count("1"), Lit(" melee attacks or "), re_count("2"),
          Lit(" ranged attacks"), Opt(Lit("."))>>)
Named_re ==
    Cat(<<re_name, Lit(" makes "), re_count("1"), Lit(" "), re_type_word("1"), Lit(" attacks"),
          Opt(Lit("."))>>)
WithNamed_re ==
    Cat(<<re_name, Lit(" makes "), re_count("1"), Lit(" "), Opt(Alt(<<Lit("melee "), Lit("ranged ")>>)),
          Lit("attacks with "), re_article, re_type_word("1"), Lit(".")>>)
WithNamed2Options_re ==
    Cat(<<re_name, Lit(" makes "), re_total, Lit(" attacks with "), re_article, re_type_word("1"),
          Lit(" or "), re_article, re_type_word("2"), Lit(".")>>)
NamedAndUses_re ==
    Cat(<<re_name, Lit(" makes "), re_count("1"), Lit(" attack"), Opt(Lit("s")), Lit(" with "),
          re_article, re_type_word("1"), Lit(" and "), Alt(<<Lit("uses"), Lit("can use")>>), Lit(" "),
          re_article, Plus(Cls("w")), Rep(Cat(<<Cls("s"), Plus(Cls("w"))>>), 0, 3), Opt(Lit("."))>>)
AttacksWithNamed_re ==
    Cat(<<re_name, Lit(" attacks"), Opt(Lit(" ")), Opt(Grp("num1", Lit("twice"))), Lit(" with "),
          re_article, re_type_word("1"), Lit(".")>>)
NumAAndNumBOrC_re ==
    Cat(<<re_name, Lit(" makes "), re_total, Lit(" "), Opt(Lit("melee ")), Lit("attacks: "),
          re_count("1"), Lit(" with "), re_article, re_type_phrase("1"), Lit(" "),
          Lit("and "), re_count("2"), Lit(" with "), Opt(Lit("either ")), re_article,
          re_type_phrase("2"), Lit(" or "), re_article, re_type_phrase("3"), Lit(".")>>)
NumArtAorArtBAndNumArtC_re ==
    Cat(<<re_name, Lit(" makes "), re_total, Lit(" attacks: "), re_count("1"), Lit(" "),
          Lit("with "), re_article, re_type_word("1"), Lit(" or "), re_article, re_type_word("2"),
          Lit(" "), Lit("and "), re_count("3"), Lit(" with "), re_article, re_type_word("3"),
          Lit(".")>>)
ArtAAndArtB_re ==
    Cat(<<re_name, Lit(" makes "), re_total, Lit(" "), Opt(Lit("melee ")), Lit("attacks"),
          Alt(<<Lit(":"), Lit(",")>>), Lit(" "),
          re_count("1"), Lit(" with "), re_article, re_type_phrase("1"), Lit(" "),
          Lit("and "), re_count("2"), Lit(" with "), re_article, re_type_phrase("2"), Lit(".")>>)
TwiceArtAAndArtB_re ==
    Cat(<<re_name, Lit(" attacks "), Grp("total", Lit("twice")), Alt(<<Lit(","), Lit(":")>>), Lit(" "),
          Grp("num1", Lit("once")), Lit(" with "), re_article, re_type_word("1"), Lit(" and "),
          Grp("num2", Lit("once")), Lit(" with "), re_article, re_type_word("2"), Opt(Lit("."))>>)
MakesAAttackAndBAttack_re ==
    Cat(<<re_name, Lit(" makes "), re_count("1"), Lit(" "), re_type_word("1"), Lit(" attack"),
          Opt(Lit("s")), Lit(" and "), re_count("2"), Lit(" "), re_type_word("2"), Lit(" attack"),
          Opt(Lit("s")), Lit(".")>>)
MakesAAndBAttack_re ==
    Cat(<<re_name, Lit(" makes "), re_count("1"), Lit(" "), re_type_word("1"), Lit(" and "),
          re_count("2"), Lit(" "), re_type_word("2"), Lit(" attack"), Opt(Lit("s")), Lit(".")>>)
AOrB_re ==
    Cat(<<re_name, Lit(" makes "), re_count("1"), Lit(" "), re_type_phrase("1"), Lit(" attacks or "),
          re_count("2"), Lit(" "), re_type_phrase("2"), Lit(" attacks"), Opt(Lit("."))>>)
\* NoMultiattack.re = None
NoMultiattack_re == [t |-> "None"]
ByHalfSpellLevel_re ==
    Cat(<<re_name, Lit(" makes a number of attacks equal to half this spell's level (rounded down).")>>)
\* Default's pattern without its newline part: .*
Default_re_one_line == Star(Cls("dot"))
\* .*(?:\n.*)*
Default_re ==
    Cat(<<Star(Cls("dot")), Star(Cat(<<Lit("\n"), Star(Cls("dot"))>>))>>)

(***************************************************************************)
(* attack_forms: filled by AttackForm.__init_subclass__, one call per      *)
(* subclass, in the order the class statements are executed                *)
(***************************************************************************)
\* The AttackForm subclasses in declaration order
subclasses ==
    << [re |-> Centaur_re, cls |-> "Centaur"],
       [re |-> Lamia_re, cls |-> "Lamia"],
       [re |-> Manticore_re, cls |-> "Manticore"],
       [re |-> Orc_re, cls |-> "Orc"],
       [re |-> Devil_re, cls |-> "Devil"],
       [re |-> Morkoth_re, cls |-> "Morkoth"],
       [re |-> Marut_re, cls |-> "Marut"],
       [re |-> Hunter_re, cls |-> "Hunter"],
       [re |-> Sansuri_re, cls |-> "Sansuri"],
       [re |-> Generator_re, cls |-> "Generator"],
       [re |-> Stomper_re, cls |-> "Stomper"],
       [re |-> Any_re, cls |-> "Any"],
       [re |-> NumWithWeapon_re, cls |-> "NumWithWeapon"],
       [re |-> AnyMelee_re, cls |-> "AnyMelee"],
       [re |-> AnyRanged_re, cls |-> "AnyRanged"],
       [re |-> MeleeOrRanged_re, cls |-> "MeleeOrRanged"],
       [re |-> Named_re, cls |-> "Named"],
       [re |-> WithNamed_re, cls |-> "WithNamed"],
       [re |-> WithNamed2Options_re, cls |-> "WithNamed2Options"],
       [re |-> NamedAndUses_re, cls |-> "NamedAndUses"],
       [re |-> AttacksWithNamed_re, cls |-> "AttacksWithNamed"],
       [re |-> NumAAndNumBOrC_re, cls |-> "NumAAndNumBOrC"],
       [re |-> NumArtAorArtBAndNumArtC_re, cls |-> "NumArtAorArtBAndNumArtC"],
       [re |-> ArtAAndArtB_re, cls |-> "ArtAAndArtB"],
       [re |-> TwiceArtAAndArtB_re, cls |-> "TwiceArtAAndArtB"],
       [re |-> MakesAAttackAndBAttack_re, cls |-> "MakesAAttackAndBAttack"],
       [re |-> MakesAAndBAttack_re, cls |-> "MakesAAndBAttack"],
       [re |-> AOrB_re, cls |-> "AOrB"],
       [re |-> NoMultiattack_re, cls |-> "NoMultiattack"],
       [re |-> ByHalfSpellLevel_re, cls |-> "ByHalfSpellLevel"],
       [re |-> Default_re, cls |-> "Default"] >>

\* attack_forms.update({subclass.re: subclass}): a new key is appended, an
\* existing key keeps its position and takes the new value
init_subclass(forms, subclass) ==
    IF \E i \in 1..Len(forms) : forms[i].re = subclass.re
    THEN [i \in 1..Len(forms) |->
             IF forms[i].re = subclass.re THEN subclass ELSE forms[i]]
    ELSE Append(forms, subclass)

RECURSIVE declare(_)
\* attack_forms after the first n class statements
declare(n) ==
    IF n = 0 THEN <<>> ELSE init_subclass(declare(n - 1), subclasses[n])

attack_forms == declare(Len(subclasses))

\* attack_forms[None]
form_of_None ==
    attack_forms[CHOOSE i \in 1..Len(attack_forms) : attack_forms[i].re.t = "None"].cls

(***************************************************************************)
(* class Actions(dict): a sequence of (name, action dict) items in dict    *)
(* order; an action dict is a record holding the fields that are present   *)
(***************************************************************************)
HasKey(acts, name) == \E i \in 1..Len(acts) : acts[i].name = name
Get(acts, name) == acts[CHOOSE i \in 1..Len(acts) : acts[i].name = name].d

\* 'attack_bonus' in attack and 'damage' in attack
IsAttack(a) == "attack_bonus" \in DOMAIN a.d /\ "damage" \in DOMAIN a.d

\* The test satisfied by either field
IsAttack_either(a) == "attack_bonus" \in DOMAIN a.d \/ "damage" \in DOMAIN a.d

\* The catalog of the actions that carry either field
attacks_either(acts) == SelectSeq(acts, IsAttack_either)

\* Actions.attacks
attacks(acts) == SelectSeq(acts, IsAttack)

\* multiattack_text with a default of '' where the code answers the
\* KeyError with None
multiattack_text_or_empty(acts) ==
    IF HasKey(acts, "Multiattack") /\ "text" \in DOMAIN Get(acts, "Multiattack")
    THEN Some(Get(acts, "Multiattack").text)
    ELSE Some("")

\* multiattack_text handing the text out once: the read of the first
\* classification consumes it
multiattack_text_once(acts) ==
    IF last = "new" /\ HasKey(acts, "Multiattack") /\ "text" \in DOMAIN Get(acts, "Multiattack")
    THEN Some(Get(acts, "Multiattack").text)
    ELSE None

\* Actions.multiattack_text
multiattack_text(acts) ==
    IF HasKey(acts, "Multiattack") /\ "text" \in DOMAIN Get(acts, "Multiattack")
    THEN Some(Get(acts, "Multiattack").text)
    ELSE None

(***************************************************************************)
(* calc.py.  Odds count 20ths, averages count halves, DPR counts 40ths.    *)
(***************************************************************************)
Max2(a, b) == IF a >= b THEN a ELSE b
Min2(a, b) == IF a <= b THEN a ELSE b

\* meetorbeat(target) = max(min(1.0 - (target - 1.0) / 20, 1.0), 0.0), in
\* 20ths: the odds without the automatic miss on 1 and hit on 20
attackodds_unclamped(target) == Max2(Min2(20 - (target - 1), 20), 0)

\* attackodds(target) = max(min(1.0 - (target - 1.0) / 20, 0.95), 0.05), in 20ths
attackodds(target) == Max2(Min2(20 - (target - 1), 19), 1)

DigitSeq == "0123456789"
DigitVal(c) == (CHOOSE i \in 1..Len(DigitSeq) : Ch(DigitSeq, i) = c) - 1
IsDigitAt(s, i) == i <= Len(s) /\ Ch(s, i) \in Digits

RECURSIVE ParseNat(_, _, _)
\* the run of digits of s from position i: its value and the position after it
ParseNat(s, i, acc) ==
    IF IsDigitAt(s, i)
    THEN ParseNat(s, i + 1, 10 * acc + DigitVal(Ch(s, i)))
    ELSE [v |-> acc, i |-> i]

RECURSIVE SkipSpaces(_, _)
SkipSpaces(s, i) == IF i <= Len(s) /\ Ch(s, i) = " " THEN SkipSpaces(s, i + 1) ELSE i

RECURSIVE avg_terms(_, _, _, _)
\* The terms of the expression from position i on, added to acc with the
\* given sign.  A term NdM is replaced by (float(N)*M + N)/2, any other
\* number stands for itself; the sum counts halves.
avg_terms(s, i, sign, acc) ==
    LET j == SkipSpaces(s, i)
    IN IF j <= Len(s) /\ Ch(s, j) = "-"
       THEN avg_terms(s, j + 1, 0 - sign, acc)
       ELSE IF ~IsDigitAt(s, j)
            THEN Raise("SyntaxError")
            ELSE LET n == ParseNat(s, j, 0)
                     dice == n.i <= Len(s) /\ Ch(s, n.i) = "d" /\ IsDigitAt(s, n.i + 1)
                     m == ParseNat(s, n.i + 1, 0)
                     term == IF dice THEN n.v * m.v + n.v ELSE 2 * n.v
                     k == SkipSpaces(s, IF dice THEN m.i ELSE n.i)
                     sum == acc + sign * term
                 IN IF k > Len(s) THEN Return(sum)
                    ELSE IF Ch(s, k) = "+" THEN avg_terms(s, k + 1, 1, sum)
                    ELSE IF Ch(s, k) = "-" THEN avg_terms(s, k + 1, 0 - 1, sum)
                    ELSE Raise("SyntaxError")

\* avg with every result rounded down to a whole number
avg_floored(expression) ==
    LET a == avg_terms(expression, 1, 1, 0)
    IN IF a.kind = "raise" THEN a ELSE Return(2 * (a.v \div 2))

\* avg(expression), in halves
avg(expression) == avg_terms(expression, 1, 1, 0)

\* calc.dpr(ac, attack_bonus, damage) = attackodds(ac - attack_bonus) * avg(damage)
calc_dpr_fn(ac, attack_bonus, damage) ==
    LET a == avg(damage)
    IN IF a.kind = "raise" THEN a
       ELSE Return(Some(attackodds(ac - attack_bonus) * a.v))

\* Attack.dpr(target_ac)
Attack_dpr(attack, ac) ==
    IF IsAttack(attack)
    THEN calc_dpr_fn(ac, attack.d.attack_bonus, attack.d.damage)
    ELSE Return(None)

(***************************************************************************)
(* Combining outcomes                                                      *)
(***************************************************************************)
\* F(x), with x evaluated once and handed to F as a value
Bind(x, F(_)) == CHOOSE r \in {F(y) : y \in {x}} : TRUE

\* The first exception among the evaluated outcomes, in evaluation order
FirstRaiseOf(outs) ==
    IF \E i \in 1..Len(outs) : outs[i].kind = "raise"
    THEN Some(outs[CHOOSE i \in 1..Len(outs) :
                       /\ outs[i].kind = "raise"
                       /\ \A j \in 1..(i - 1) : outs[j].kind # "raise"])
    ELSE None
\* The first exception among the outcomes, in evaluation order, if any
FirstRaise(outs) == Bind(outs, FirstRaiseOf)

\* The number an Attack.dpr outcome returned
Num(out) == Val(out.v)

RECURSIVE MaxOf(_)
\* max() of a non-empty sequence of numbers
MaxOf(ns) ==
    IF Len(ns) = 1 THEN ns[1] ELSE Max2(ns[1], MaxOf(Tail(ns)))

\* max() over the outcomes of the generator's attack.dpr(target_ac) calls:
\* the first exception raised, ValueError on an empty sequence
max_dpr_of(outs) ==
    IF ~IsNone(FirstRaiseOf(outs)) THEN Val(FirstRaiseOf(outs))
    ELSE IF Len(outs) = 0 THEN Raise("ValueError")
    ELSE Return(Some(MaxOf([i \in 1..Len(outs) |-> Num(outs[i])])))

\* max(attack.dpr(target_ac) for attack in ...): ValueError on no attack
max_dpr(atts, ac) ==
    Bind([i \in 1..Len(atts) |-> Attack_dpr(atts[i], ac)], max_dpr_of)

(***************************************************************************)
(* AttackForm._match_attack                                                *)
(***************************************************************************)
\* The documented policy in place of the code's test: the names are equal
\* without regard to case, also with one trailing "s" taken off the
\* fragment, or the pair is in the alias table
match_attack_test_exact(attack_name, name) ==
    LET lname == Lower(name)
        lattack == Lower(attack_name)
    IN \/ lname = lattack
       \/ Len(lattack) > 0 /\ lattack = lname \o "s"
       \/ lattack = "hooves" /\ lname = "hoof"
       \/ lattack = "adamantine greatclub" /\ lname = "greatclub"
       \/ /\ SubSeq(attack_name, 1, Min2(3, Len(attack_name))) = "+1 "
          /\ lname = Lower(SubSeq(attack_name, 4, Len(attack_name))) \o " +1"

\* The conditions under which the loop body returns `attack` for `name`
match_attack_test(attack_name, name) ==
    LET lname == Lower(name)
        lattack == Lower(attack_name)
    IN \/ Contains(lname, RStrip(lattack, "s"))
       \/ lattack = "hooves" /\ lname = "hoof"
       \/ lattack = "adamantine greatclub" /\ lname = "greatclub"
       \/ /\ SubSeq(attack_name, 1, Min2(3, Len(attack_name))) = "+1 "
          /\ lname = Lower(SubSeq(attack_name, 4, Len(attack_name))) \o " +1"

RECURSIVE match_attack_loop_leak(_, _, _)
\* The loop answering with its loop variable when it runs out: the last
\* attack looked at where the code returns None
match_attack_loop_leak(atts, n, attack_name) ==
    IF n > Len(atts) THEN (IF Len(atts) > 0 THEN Some(atts[Len(atts)]) ELSE None)
    ELSE IF match_attack_test(attack_name, atts[n].name) THEN Some(atts[n])
    ELSE match_attack_loop_leak(atts, n + 1, attack_name)

RECURSIVE match_attack_loop(_, _, _)
match_attack_loop(atts, n, attack_name) ==
    IF n > Len(atts) THEN None
    ELSE IF match_attack_test(attack_name, atts[n].name) THEN Some(atts[n])
    ELSE match_attack_loop(atts, n + 1, attack_name)

\* self._match_attack(attack_name)
match_attack(acts, attack_name) == match_attack_loop(attacks(acts), 1, attack_name)

\* self._match_attack(attack_name).dpr(target_ac): None has no attribute dpr
matched_dpr(acts, attack_name, ac) ==
    LET a == match_attack(acts, attack_name)
    IN IF IsNone(a) THEN Raise("AttributeError") ELSE Attack_dpr(Val(a), ac)

(***************************************************************************)
(* AttackForm._validate                                                    *)
(***************************************************************************)
AllDigits(s) == Len(s) > 0 /\ \A i \in 1..Len(s) : Ch(s, i) \in Digits
\* re.fullmatch('num\d+', key), re.fullmatch('type\d+', key)
IsNumKey(key) == SubSeq(key, 1, Min2(3, Len(key))) = "num" /\ AllDigits(SubSeq(key, 4, Len(key)))
IsTypeKey(key) == SubSeq(key, 1, Min2(4, Len(key))) = "type" /\ AllDigits(SubSeq(key, 5, Len(key)))

RECURSIVE Str(_)
\* str(n) of a natural number
Str(n) == IF n < 10 THEN Ch(DigitSeq, n + 1) ELSE Str(n \div 10) \o Ch(DigitSeq, (n % 10) + 1)
\* int(s) of a digit string
Int_(s) == ParseNat(s, 1, 0).v

\* d[k] = v on a dict
Put(d, k, v) == [x \in DOMAIN d \cup {k} |-> IF x = k THEN v ELSE d[x]]

RECURSIVE Sum(_)
Sum(ns) == IF Len(ns) = 0 THEN 0 ELSE ns[1] + Sum(Tail(ns))

\* The statements after the loop: the total check and the return.  On a
\* mismatch the warning text is built with "+".join(counts), counts being
\* a list of int: str.join raises TypeError.
validate_finish(ret, counts) ==
    IF "total" \in DOMAIN ret /\ Len(counts) > 0 /\ Sum(counts) # ret["total"]
    THEN Raise("TypeError")
    ELSE Return(Some(ret))

RECURSIVE validate_loop(_, _, _, _, _)
\* for key, val in self.match.groupdict().items(): ... from item n on
validate_loop(m, acts, n, ret, counts) ==
    IF n > Len(m.names)
    THEN validate_finish(ret, counts)
    ELSE LET key == m.names[n]
             val == m.groupdict[key]
         IN IF IsNumKey(key)
            THEN LET anum == Int_(SubSeq(key, 4, Len(key)))
                     count == IF ~IsNone(val) THEN numberwords[Val(val)] ELSE 1
                 IN validate_loop(m, acts, n + 1,
                                  Put(ret, "a" \o Str(anum) \o "count", count),
                                  Append(counts, count))
            ELSE IF key = "total"
            THEN IF IsNone(val) THEN Raise("KeyError")
                 ELSE validate_loop(m, acts, n + 1, Put(ret, "total", numberwords[Val(val)]), counts)
            ELSE IF IsTypeKey(key)
            THEN LET anum == Int_(SubSeq(key, 5, Len(key)))
                     named == Put(ret, "a" \o Str(anum) \o "name", val)
                 IN IF IsNone(val) THEN Raise("AttributeError")
                    ELSE LET attack == match_attack(acts, Val(val))
                         IN IF ~IsNone(attack)
                            THEN validate_loop(m, acts, n + 1,
                                               Put(named, "a" \o Str(anum) \o "attack", Val(attack)),
                                               counts)
                            ELSE Return(None)
            ELSE IF key = "mname"
            THEN validate_loop(m, acts, n + 1, Put(ret, "mname", val), counts)
            ELSE validate_loop(m, acts, n + 1, ret, counts)

\* AttackForm._validate
AttackForm_validate(m, acts) == validate_loop(Val(m), acts, 1, <<>>, <<>>)

\* NoMultiattack._validate without its test for an empty catalog
NoMultiattack_validate_unguarded(acts) == Return(Some([attacks |-> attacks(acts)]))

\* NoMultiattack._validate (also ByHalfSpellLevel._validate, Default._validate)
NoMultiattack_validate(acts) ==
    IF Len(attacks(acts)) > 0
    THEN Return(Some([attacks |-> attacks(acts)]))
    ELSE Return(None)

\* self._validate() of an object of class cls
validate(cls, m, acts) ==
    IF cls \in {"NoMultiattack", "ByHalfSpellLevel", "Default"}
    THEN NoMultiattack_validate(acts)
    ELSE AttackForm_validate(m, acts)

(***************************************************************************)
(* AttackForm.__init__                                                     *)
(***************************************************************************)
\* re.match(regexp, string): None, or the match object of the first outcome,
\* which may end before the end of the string
match_prefix(regexp, string) ==
    LET names == GroupNames(regexp)
        outs == Run(regexp, string, <<[pos |-> 1, caps |-> [n \in Range(names) |-> <<>>]]>>)
    IN IF Len(outs) > 0
       THEN Some([string |-> string, names |-> names,
                  groupdict |-> [n \in Range(names) |->
                                    IF outs[1].caps[n] = <<>> THEN None
                                    ELSE Some(SubSeq(string, outs[1].caps[n][1], outs[1].caps[n][2]))]])
       ELSE None

RECURSIVE init_loop_prefix(_, _, _)
\* The loop with re.match in place of re.fullmatch: the first pattern that
\* matches a prefix of the text wins
init_loop_prefix(forms, n, text) ==
    IF n > Len(forms)
    THEN Raise("Exception")
    ELSE IF forms[n].re.t = "None"
         THEN init_loop_prefix(forms, n + 1, text)
         ELSE LET m == match_prefix(forms[n].re, text)
              IN IF ~IsNone(m)
                 THEN Return([cls |-> forms[n].cls, match |-> m])
                 ELSE init_loop_prefix(forms, n + 1, text)

RECURSIVE init_loop(_, _, _)
\* for regexp, form_class in attack_forms.items(): ... from item n on
init_loop(forms, n, text) ==
    IF n > Len(forms)
    THEN Raise("Exception")
    ELSE IF forms[n].re.t = "None"
         THEN init_loop(forms, n + 1, text)
         ELSE LET m == fullmatch(forms[n].re, text)
              IN IF ~IsNone(m)
                 THEN Return([cls |-> forms[n].cls, match |-> m])
                 ELSE init_loop(forms, n + 1, text)

\* Whether every name the match m captured is the name of an attack
captures_resolve(m, acts) ==
    \A key \in DOMAIN Val(m).groupdict :
        (IsTypeKey(key) /\ ~IsNone(Val(m).groupdict[key]))
            => ~IsNone(match_attack(acts, Val(Val(m).groupdict[key])))

RECURSIVE init_loop_resolving(_, _, _, _)
\* The loop going on to the next pattern when a captured name is the name
\* of no attack
init_loop_resolving(forms, n, text, acts) ==
    IF n > Len(forms)
    THEN Raise("Exception")
    ELSE IF forms[n].re.t = "None"
         THEN init_loop_resolving(forms, n + 1, text, acts)
         ELSE LET m == fullmatch(forms[n].re, text)
              IN IF ~IsNone(m) /\ captures_resolve(m, acts)
                 THEN Return([cls |-> forms[n].cls, match |-> m])
                 ELSE init_loop_resolving(forms, n + 1, text, acts)

\* AttackForm(actions) with that loop
AttackForm_init_resolving(acts) ==
    IF IsNone(multiattack_text(acts))
    THEN Return([cls |-> form_of_None, match |-> None])
    ELSE init_loop_resolving(attack_forms, 1, Val(multiattack_text(acts)), acts)

\* AttackForm(actions): the class and the match the new object ends with
AttackForm_init(acts) ==
    IF IsNone(multiattack_text(acts))
    THEN Return([cls |-> form_of_None, match |-> None])
    ELSE init_loop(attack_forms, 1, Val(multiattack_text(acts)))

(***************************************************************************)
(* _calc_dpr of the generic handlers                                       *)
(***************************************************************************)
\* The outcome of an expression over sub-outcomes: their first exception, or
\* the value
Lift(outs, value) ==
    Bind(FirstRaise(outs),
         LAMBDA fr : IF ~IsNone(fr) THEN Val(fr) ELSE Return(Some(value)))

\* The selection without its test: every attack of the catalog
by_text_prefix_any(acts, word) == Return(attacks(acts))

\* [attack for attack in self.actions.attacks.values()
\*  if attack['text'][:n].lower() == word]: KeyError on an attack without text
by_text_prefix(acts, word) ==
    IF \E i \in 1..Len(attacks(acts)) : "text" \notin DOMAIN attacks(acts)[i].d
    THEN Raise("KeyError")
    ELSE Return(SelectSeq(attacks(acts),
                          LAMBDA a : Lower(SubSeq(a.d.text, 1, Min2(Len(word), Len(a.d.text)))) = word))

Any_calc_dpr(acts, ac, v) ==
    LET best == max_dpr(attacks(acts), ac)
    IN Lift(<<best>>, v["total"] * Num(best))

AnyMelee_calc_dpr(acts, ac, v) ==
    LET melee_attacks == by_text_prefix(acts, "melee")
    IN IF melee_attacks.kind = "raise" THEN melee_attacks
       ELSE LET best == max_dpr(melee_attacks.v, ac)
            IN Lift(<<best>>, v["a1count"] * Num(best))

AnyRanged_calc_dpr(acts, ac, v) ==
    LET ranged_attacks == by_text_prefix(acts, "ranged")
    IN IF ranged_attacks.kind = "raise" THEN ranged_attacks
       ELSE LET best == max_dpr(ranged_attacks.v, ac)
            IN Lift(<<best>>, v["a1count"] * Num(best))

\* max([0] + [attack.dpr(target_ac) for attack in atts])
max0_dpr(atts, ac) ==
    IF Len(atts) = 0 THEN Return(Some(0))
    ELSE LET best == max_dpr(atts, ac)
         IN Lift(<<best>>, Max2(0, Num(best)))

MeleeOrRanged_calc_dpr(acts, ac, v) ==
    LET melee_attacks == by_text_prefix(acts, "melee")
        ranged_attacks == by_text_prefix(acts, "ranged")
    IN IF melee_attacks.kind = "raise" THEN melee_attacks
       ELSE LET maxmelee == max0_dpr(melee_attacks.v, ac)
                maxranged == max0_dpr(ranged_attacks.v, ac)
            IN Lift(<<maxmelee, maxranged>>,
                    Max2(v["a1count"] * Num(maxmelee), v["a2count"] * Num(maxranged)))

Named_calc_dpr(acts, ac, v) ==
    LET a1 == Attack_dpr(v["a1attack"], ac)
    IN Lift(<<a1>>, v["a1count"] * Num(a1))

WithNamed2Options_calc_dpr(acts, ac, v) ==
    LET a1 == Attack_dpr(v["a1attack"], ac)
        a2 == Attack_dpr(v["a2attack"], ac)
    IN Lift(<<a1, a2>>, v["total"] * Max2(Num(a1), Num(a2)))

NumAAndNumBOrC_calc_dpr(acts, ac, v) ==
    LET a1 == Attack_dpr(v["a1attack"], ac)
        a2 == Attack_dpr(v["a2attack"], ac)
        a3 == Attack_dpr(v["a3attack"], ac)
    IN Lift(<<a1, a2, a3>>,
            v["a1count"] * Num(a1) + v["a2count"] * Max2(Num(a2), Num(a3)))

NumArtAorArtBAndNumArtC_calc_dpr(acts, ac, v) ==
    LET a1 == Attack_dpr(v["a1attack"], ac)
        a2 == Attack_dpr(v["a2attack"], ac)
        a3 == Attack_dpr(v["a3attack"], ac)
    IN Lift(<<a1, a2, a3>>,
            v["a1count"] * Max2(Num(a1), Num(a2)) + v["a3count"] * Num(a3))

ArtAAndArtB_calc_dpr(acts, ac, v) ==
    LET a1 == Attack_dpr(v["a1attack"], ac)
        a2 == Attack_dpr(v["a2attack"], ac)
    IN Lift(<<a1, a2>>, v["a1count"] * Num(a1) + v["a2count"] * Num(a2))

\* Both routines made in the same round
AOrB_calc_dpr_both(acts, ac, v) ==
    LET a1 == Attack_dpr(v["a1attack"], ac)
        a2 == Attack_dpr(v["a2attack"], ac)
    IN Lift(<<a1, a2>>, v["a1count"] * Num(a1) + v["a2count"] * Num(a2))

AOrB_calc_dpr(acts, ac, v) ==
    LET a1 == Attack_dpr(v["a1attack"], ac)
        a2 == Attack_dpr(v["a2attack"], ac)
    IN Lift(<<a1, a2>>, Max2(v["a1count"] * Num(a1), v["a2count"] * Num(a2)))

\* The first attack of the catalog in place of the best one
NoMultiattack_calc_dpr_first(acts, ac, v) == Attack_dpr(v["attacks"][1], ac)

NoMultiattack_calc_dpr(acts, ac, v) == max_dpr(v["attacks"], ac)

\* self._calc_dpr(target_ac, v) of an object of class cls
calc_dpr(cls, acts, ac, v) ==
    CASE cls \in {"Any", "NumWithWeapon"} -> Any_calc_dpr(acts, ac, v)
      [] cls = "AnyMelee" -> AnyMelee_calc_dpr(acts, ac, v)
      [] cls = "AnyRanged" -> AnyRanged_calc_dpr(acts, ac, v)
      [] cls = "MeleeOrRanged" -> MeleeOrRanged_calc_dpr(acts, ac, v)
      [] cls \in {"Named", "WithNamed", "NamedAndUses", "AttacksWithNamed"} ->
            Named_calc_dpr(acts, ac, v)
      [] cls = "WithNamed2Options" -> WithNamed2Options_calc_dpr(acts, ac, v)
      [] cls = "NumAAndNumBOrC" -> NumAAndNumBOrC_calc_dpr(acts, ac, v)
      [] cls = "NumArtAorArtBAndNumArtC" -> NumArtAorArtBAndNumArtC_calc_dpr(acts, ac, v)
      [] cls \in {"ArtAAndArtB", "TwiceArtAAndArtB", "MakesAAttackAndBAttack", "MakesAAndBAttack"} ->
            ArtAAndArtB_calc_dpr(acts, ac, v)
      [] cls = "AOrB" -> AOrB_calc_dpr(acts, ac, v)
      [] cls \in {"NoMultiattack", "ByHalfSpellLevel", "Default"} ->
            NoMultiattack_calc_dpr(acts, ac, v)
      [] OTHER -> Return(None)

(***************************************************************************)
(* dpr of the custom handlers, which override AttackForm.dpr               *)
(***************************************************************************)
Centaur_dpr(acts, ac) ==
    LET pike == matched_dpr(acts, "Pike", ac)
        hooves == matched_dpr(acts, "Hooves", ac)
        longbow == matched_dpr(acts, "Longbow", ac)
    IN Lift(<<pike, hooves, longbow>>, Max2(Num(pike) + Num(hooves), 2 * Num(longbow)))

Lamia_dpr(acts, ac) ==
    LET claws == matched_dpr(acts, "Claws", ac)
        dagger == matched_dpr(acts, "Dagger", ac)
    IN Lift(<<claws, dagger>>, Num(claws) + Num(dagger))

Manticore_dpr(acts, ac) ==
    LET bite == matched_dpr(acts, "Bite", ac)
        claws == matched_dpr(acts, "Claws", ac)
        spikes == matched_dpr(acts, "Tail Spikes", ac)
    IN Lift(<<bite, claws, spikes>>, Max2(Num(bite) + 2 * Num(claws), Num(spikes)))

Orc_dpr(acts, ac) ==
    LET spear == matched_dpr(acts, "Spear", ac)
        greataxe == calc_dpr_fn(ac, 6, "1d12+4+1d8")
    IN Lift(<<spear, greataxe>>, 2 * Max2(Num(spear), Num(greataxe)))

Devil_dpr(acts, ac) ==
    LET bite == matched_dpr(acts, "Bite", ac)
        fork == matched_dpr(acts, "Fork", ac)
        spine == matched_dpr(acts, "Tail Spine", ac)
    IN Lift(<<bite, fork, spine>>, Max2(Num(bite) + Num(fork), 2 * Num(spine)))

Morkoth_dpr(acts, ac) ==
    LET bite == matched_dpr(acts, "Bite", ac)
        tentacles == matched_dpr(acts, "Tentacles", ac)
    IN Lift(<<bite, tentacles>>, Max2(2 * Num(bite) + Num(tentacles), 3 * Num(bite)))

\* return 120
Marut_dpr(acts, ac) == Return(Some(120 * 40))

Hunter_dpr(acts, ac) ==
    LET greatsword == matched_dpr(acts, "Greatsword", ac)
        crossbow == matched_dpr(acts, "Heavy Crossbow", ac)
    IN Lift(<<greatsword, crossbow>>, 2 * Max2(Num(greatsword), Num(crossbow)))

Sansuri_dpr(acts, ac) == max_dpr(attacks(acts), ac)

Generator_dpr(acts, ac) ==
    LET fist == matched_dpr(acts, "Fist", ac)
        dart == avg("2d4")
    IN Lift(<<fist, dart>>, Max2(2 * Num(fist), 4 * (20 * dart.v)))

Stomper_dpr(acts, ac) == Return(None)

custom_handlers ==
    {"Centaur", "Lamia", "Manticore", "Orc", "Devil", "Morkoth", "Marut", "Hunter",
     "Sansuri", "Generator", "Stomper"}

(***************************************************************************)
(* dpr_confidence: a class attribute, '=' unless the class sets its own    *)
(***************************************************************************)
\* The markers as the documentation lists them
dpr_confidence_documented(cls) ==
    CASE cls = "NamedAndUses" -> ">="
      [] cls = "Default" -> "~="
      [] OTHER -> "="

dpr_confidence(cls) ==
    CASE cls = "NamedAndUses" -> ">"
      [] cls = "ByHalfSpellLevel" -> ">="
      [] cls = "Default" -> ">=~"
      [] OTHER -> "="

(***************************************************************************)
(* AttackForm.dpr                                                          *)
(***************************************************************************)
Uncalled == [kind |-> "uncalled"]

\* v = self._validate() in the dpr of an object of class cls; the custom
\* handlers override dpr and do not validate
dpr_validate(cls, m, acts) ==
    IF cls \in custom_handlers THEN Uncalled ELSE validate(cls, m, acts)

\* AttackForm.dpr(target_ac) as inherited by the generic handlers, from the
\* outcome v of self._validate() on
AttackForm_dpr(cls, acts, ac, v) ==
    IF v.kind = "raise" THEN v
    ELSE IF IsNone(v.v) THEN Return(None)
    ELSE calc_dpr(cls, acts, ac, Val(v.v))

\* obj.dpr(target_ac) of an object of class cls, v being the outcome of
\* self._validate() where it is called
dpr(cls, acts, ac, v) ==
    CASE cls = "Centaur" -> Centaur_dpr(acts, ac)
      [] cls = "Lamia" -> Lamia_dpr(acts, ac)
      [] cls = "Manticore" -> Manticore_dpr(acts, ac)
      [] cls = "Orc" -> Orc_dpr(acts, ac)
      [] cls = "Devil" -> Devil_dpr(acts, ac)
      [] cls = "Morkoth" -> Morkoth_dpr(acts, ac)
      [] cls = "Marut" -> Marut_dpr(acts, ac)
      [] cls = "Hunter" -> Hunter_dpr(acts, ac)
      [] cls = "Sansuri" -> Sansuri_dpr(acts, ac)
      [] cls = "Generator" -> Generator_dpr(acts, ac)
      [] cls = "Stomper" -> Stomper_dpr(acts, ac)
      [] OTHER -> AttackForm_dpr(cls, acts, ac, v)

(***************************************************************************)
(* Inputs: multiattack texts and attack catalogs                           *)
(***************************************************************************)
MaxTargetAC == 12
MaxGenLen == 2

Corpus ==
    << "The centaur makes two attacks: one with its pike and one with its hooves or two with its longbow.",
       "The lamia makes two attacks: one with its claws and one with its dagger or Intoxicating Touch.",
       "The manticore makes three attacks: one with its bite and two with its claws or three with its tail spikes.",
       "The orc makes two attacks with its greataxe or its spear.",
       "The orc makes two attacks with its greataxe or its spear!",
       "The devil makes two attacks: one with its bite and one with its fork or two with its tail spines.",
       "The morkoth makes three attacks: two with its bite and one with its tentacles or three with its bite.",
       "The marut makes two slam attacks.",
       "The blood hunter attacks twice with a weapon.",
       "Sansuri makes two spear attacks.",
       "The generator makes two fist attacks or four dart attacks.",
       "Shockerstomper makes three Lightning Turret attacks and two Stomp attacks.",
       "The zombie makes two weapon attacks.",
       "The zombie makes two attacks",
       "Sephek attacks twice with a weapon.",
       "The fanatic makes two melee attacks.",
       "The archer makes two ranged attacks.",
       "The scout makes two melee attacks or two ranged attacks.",
       "Lifferlas makes two slam attacks.",
       "Lifferlas makes two slan attacks.",
       "The displacer beast makes two attacks with its tentacles.",
       "Urgala makes two attacks with her morningstar or her shortbow.",
       "The intellect devourer makes one attack with its claws and uses Devour Intellect.",
       "The eblis attacks twice with its beak.",
       "The eblis attacks with its beak.",
       "The slaad makes three attacks: one with its bite and two with its claws or greatsword.",
       "The canoloth makes two attacks: one with its tongue or its bite and one with its claws.",
       "The bear makes two attacks: one with its bite and one with its claws.",
       "The bear makes three attacks: one with its bite and one with its claws.",
       "Ghald makes three attacks, one with his bite and two with his shortswords.",
       "The drake attacks twice, once with its bite and once with its tail.",
       "The peryton makes one gore attack and one talon attack.",
       "The norker makes one mace and one bite attack.",
       "The giant makes four longsword attacks or two rock attacks.",
       "The celestial makes a number of attacks equal to half this spell's level (rounded down).",
       "The hobgoblin makes four attacks, each of which can be an unarmed strike or a dart attack.",
       "The dragon can use its Frightful Presence.\nIt then makes three attacks: one with its bite and two with its claws.",
       "The marut makes two slam attacks.\n",
       "The hydra makes five attacks with its bite.",
       "The kraken makes six attacks with its tentacles." >>

GenAlphabet == {"a", " ", ".", "\n"}

RECURSIVE GenTexts(_)
\* every string over GenAlphabet of length <= n
GenTexts(n) ==
    IF n = 0 THEN {""}
    ELSE GenTexts(n - 1) \cup {s \o c : s \in {t \in GenTexts(n - 1) : Len(t) = n - 1}, c \in GenAlphabet}

Melee == "Melee Weapon Attack"
Ranged == "Ranged Weapon Attack"

Attack(name, attack_bonus, damage, text) ==
    [name |-> name, d |-> [attack_bonus |-> attack_bonus, damage |-> damage, text |-> text]]

NoAttacks == <<>>
Bear == << Attack("Bite", 5, "1d8+3", Melee), Attack("Claws", 5, "2d6+3", Melee) >>
Slammer == << Attack("Slam", 4, "1d6+2", Melee) >>
Armory ==
    << Attack("Bite", 7, "2d10+4", Melee), Attack("Claw", 7, "2d6+4", Melee),
       Attack("Greatsword", 7, "2d6+4", Melee), Attack("Tongue", 5, "1d6", Melee),
       Attack("Tail", 7, "1d8+4", Melee), Attack("Gore", 3, "1d8+1", Melee),
       Attack("Talon", 3, "2d4+1", Melee), Attack("Mace", 4, "1d6+2", Melee),
       Attack("Longsword +1", 9, "1d8+5", Melee), Attack("Rock", 9, "4d10+8", Ranged),
       Attack("Beak", 4, "1d6+2", Melee), Attack("Morningstar", 4, "1d8+2", Melee),
       Attack("Shortbow", 4, "1d6+2", Ranged), Attack("Spear", 6, "1d6+4", "Melee or Ranged Weapon Attack"),
       Attack("Fist", 6, "1d4+4", Melee), Attack("Tentacles", 6, "1d6+4", Melee),
       Attack("Hoof", 6, "2d6+4", Melee), Attack("Greatclub", 8, "3d8+5", Melee),
       Attack("Heavy Crossbow", 5, "1d10+2", Ranged), Attack("Dagger", 5, "1d4+3", Melee),
       Attack("Fork", 2, "1d6", Melee), Attack("Tail Spines", 4, "1d4+2", Ranged),
       Attack("Pike", 6, "1d10+4", Melee), Attack("Longbow", 4, "1d8+2", Ranged) >>
\* actions that are no attacks, an attack without a text field, an attack
\* whose name only contains the word the multiattack text uses
Oddities ==
    << [name |-> "Frightful Presence", d |-> [text |-> "Each creature within 120 feet must succeed on a saving throw."]],
       [name |-> "Web", d |-> [attack_bonus |-> 5, text |-> Ranged]],
       [name |-> "Unerring Slam", d |-> [attack_bonus |-> 12, damage |-> "60"]],
       Attack("Frostbite", 3, "1d4", Melee) >>

\* actions none of which is an attack
Passive ==
    << [name |-> "Frightful Presence", d |-> [text |-> "Each creature within 120 feet must succeed on a saving throw."]] >>

\* an attack whose damage expression averages below zero: the pattern
\* yield_attack validates damage against admits a modifier that outweighs
\* the die
Feeble == << Attack("Slap", 0, "1d4-5", Melee) >>

\* the attacks of the manticore
ManticoreActions ==
    << Attack("Bite", 5, "1d8+3", Melee), Attack("Claw", 5, "1d6+3", Melee),
       Attack("Tail Spike", 5, "1d8+3", Ranged) >>

\* The catalogs every text of the corpus is paired with
Catalogs == {NoAttacks, Armory, Oddities}

\* The Multiattack action with its text
Multiattack(text) == [name |-> "Multiattack", d |-> [text |-> text]]
\* A Multiattack action without a text field
MultiattackNoText == [name |-> "Multiattack", d |-> [name |-> "Multiattack"]]

\* The Actions objects the model starts from
Creatures ==
    {<<Multiattack(Corpus[i])>> \o c : i \in 1..Len(Corpus), c \in Catalogs}
    \cup {<<Multiattack(t)>> \o Bear : t \in GenTexts(MaxGenLen)}
    \cup Catalogs \cup {Bear, Slammer, Passive, Feeble}
    \cup {<<Multiattack(Corpus[3])>> \o ManticoreActions}
    \cup {<<MultiattackNoText>> \o c : c \in Catalogs}

TargetACs == 10..MaxTargetAC

\* Names handed to _match_attack directly
Fragments ==
    {"Bite", "claws", "clawss", "hooves", "adamantine greatclub", "+1 Longsword",
     "cross", "slan"}

(***************************************************************************)
(* State machine                                                           *)
(***************************************************************************)
\* The collection types, and their _parsed class attributes before any
\* database has been parsed
Types == {"Monsters", "Spells"}
NotParsed == [t \in Types |-> None]

\* Nothing of the library beside the classifier has been used
LibraryIdle ==
    /\ heap = <<>>
    /\ creatures = <<>>
    /\ objects = <<>>
    /\ parsed = NotParsed
    /\ outcome = Uncalled
    /\ lines = <<>>
    /\ line_no = 0
    /\ in_sources = FALSE
    /\ text_lines = <<>>
    /\ sources = <<>>

Init ==
    /\ actions \in Creatures
    /\ last = "new"
    /\ form = "unset"
    /\ match = None
    /\ validated = Uncalled
    /\ target_ac = None
    /\ result = Uncalled
    /\ arg_name = None
    /\ found = Uncalled
    /\ confidence = Uncalled
    /\ catalog = Uncalled
    /\ repeated = FALSE
    /\ calc = Uncalled
    /\ LibraryIdle

\* actions.attack_form (and the first half of actions.dpr, which is
\* self.attack_form.dpr): a new AttackForm object is constructed.  Once a
\* method of the object has been called the model goes on with that object.
\* `repeated` tells that a call repeats the call before it.
attack_form ==
    /\ form = "unset" \/ last = "attack_form"
    /\ LET obj == AttackForm_init(actions)
       IN /\ form' = IF obj.kind = "raise" THEN "raised" ELSE obj.v.cls
          /\ match' = IF obj.kind = "raise" THEN None ELSE obj.v.match
    /\ last' = "attack_form"
    /\ repeated' = (last = "attack_form")
    /\ validated' = Uncalled
    /\ target_ac' = None
    /\ result' = Uncalled
    /\ arg_name' = None
    /\ found' = Uncalled
    /\ confidence' = Uncalled
    /\ catalog' = Uncalled
    /\ UNCHANGED <<actions, calc>>
    /\ UNCHANGED library_vars

Constructed == form \notin {"unset", "raised"}

\* obj.dpr(target_ac) on the constructed object
call_dpr(ac) ==
    /\ Constructed
    /\ validated' = dpr_validate(form, match, actions)
    /\ result' = dpr(form, actions, ac, validated')
    /\ target_ac' = Some(ac)
    /\ last' = "dpr"
    /\ repeated' = (last = "dpr" /\ target_ac = Some(ac))
    /\ arg_name' = None
    /\ found' = Uncalled
    /\ confidence' = Uncalled
    /\ catalog' = Uncalled
    /\ UNCHANGED <<actions, form, match, calc>>
    /\ UNCHANGED library_vars

\* obj._validate() on the constructed object
call_validate ==
    /\ Constructed
    /\ validated' = validate(form, match, actions)
    /\ last' = "validate"
    /\ repeated' = (last = "validate")
    /\ target_ac' = None
    /\ result' = Uncalled
    /\ arg_name' = None
    /\ found' = Uncalled
    /\ confidence' = Uncalled
    /\ catalog' = Uncalled
    /\ UNCHANGED <<actions, form, match, calc>>
    /\ UNCHANGED library_vars

\* obj._match_attack(attack_name) on the constructed object
call_match_attack(name) ==
    /\ Constructed
    /\ arg_name' = Some(name)
    /\ found' = Return(match_attack(actions, name))
    /\ last' = "match_attack"
    /\ repeated' = (last = "match_attack" /\ arg_name = Some(name))
    /\ validated' = Uncalled
    /\ target_ac' = None
    /\ result' = Uncalled
    /\ confidence' = Uncalled
    /\ catalog' = Uncalled
    /\ UNCHANGED <<actions, form, match, calc>>
    /\ UNCHANGED library_vars

\* obj.dpr_confidence on the constructed object
read_dpr_confidence ==
    /\ Constructed
    /\ confidence' = Return(dpr_confidence(form))
    /\ last' = "dpr_confidence"
    /\ repeated' = (last = "dpr_confidence")
    /\ validated' = Uncalled
    /\ target_ac' = None
    /\ result' = Uncalled
    /\ arg_name' = None
    /\ found' = Uncalled
    /\ catalog' = Uncalled
    /\ UNCHANGED <<actions, form, match, calc>>
    /\ UNCHANGED library_vars

\* actions.attacks answering with the actions that carry either field
read_attacks_either ==
    /\ catalog' = Return(attacks_either(actions))
    /\ last' = "attacks"
    /\ repeated' = (last = "attacks")
    /\ validated' = Uncalled
    /\ target_ac' = None
    /\ result' = Uncalled
    /\ arg_name' = None
    /\ found' = Uncalled
    /\ confidence' = Uncalled
    /\ UNCHANGED <<actions, form, match, calc>>
    /\ UNCHANGED library_vars

\* actions.attacks
read_attacks ==
    /\ catalog' = Return(attacks(actions))
    /\ last' = "attacks"
    /\ repeated' = (last = "attacks")
    /\ validated' = Uncalled
    /\ target_ac' = None
    /\ result' = Uncalled
    /\ arg_name' = None
    /\ found' = Uncalled
    /\ confidence' = Uncalled
    /\ UNCHANGED <<actions, form, match, calc>>
    /\ UNCHANGED library_vars

Next ==
    \/ attack_form
    \/ \E ac \in TargetACs : call_dpr(ac)
    \/ call_validate
    \/ \E name \in Fragments : call_match_attack(name)
    \/ read_dpr_confidence
    \/ read_attacks

Spec == Init /\ [][Next]_vars

(***************************************************************************)
(* calc.py called on its own                                               *)
(***************************************************************************)
MaxNeededRoll == 24
MaxDice == 2
MaxTerms == 2

\* target of attackodds: the roll needed, target AC less attack bonus
NeededRolls == (0 - MaxNeededRoll)..MaxNeededRoll

DieSizes == {4, 6, 10}
Flats == {0, 2, 5, 10}
\* A term of a die expression with its sign: n dice of m sides, or the
\* number n
Terms ==
    {[dice |-> TRUE, n |-> n, m |-> m, sign |-> sg] :
        n \in 1..MaxDice, m \in DieSizes, sg \in {1, 0 - 1}}
    \cup {[dice |-> FALSE, n |-> n, m |-> 0, sign |-> sg] : n \in Flats, sg \in {1, 0 - 1}}
TermLists == UNION {[1..k -> Terms] : k \in 1..MaxTerms}

RenderTerm(t) == IF t.dice THEN Str(t.n) \o "d" \o Str(t.m) ELSE Str(t.n)
RECURSIVE RenderFrom(_, _, _)
RenderFrom(terms, k, space) ==
    IF k > Len(terms) THEN ""
    ELSE space \o (IF terms[k].sign > 0 THEN "+" ELSE "-") \o space
         \o RenderTerm(terms[k]) \o RenderFrom(terms, k + 1, space)
\* The terms written as an expression, the operators set in `space`
Render(terms, space) ==
    (IF terms[1].sign > 0 THEN "" ELSE "-") \o RenderTerm(terms[1])
    \o RenderFrom(terms, 2, space)

Die(n, m) == [dice |-> TRUE, n |-> n, m |-> m, sign |-> 1]
Flat(n) == [dice |-> FALSE, n |-> n, m |-> 0, sign |-> 1]
\* The expressions of the doctests of avg and dpr, with their terms
DocExpressions ==
    { [terms |-> <<Flat(1)>>, expression |-> "1"],
      [terms |-> <<Flat(1), [Flat(2) EXCEPT !.sign = 0 - 1]>>, expression |-> "1 - 2"],
      [terms |-> <<Die(1, 4)>>, expression |-> "1d4"],
      [terms |-> <<Die(1, 10), Flat(5)>>, expression |-> "1d10+5"],
      [terms |-> <<Die(1, 10), Flat(5), Die(1, 6)>>, expression |-> "1d10+5 + 1d6"],
      [terms |-> <<Die(2, 10), Flat(10), Die(2, 6)>>, expression |-> "2d10+10 + 2d6"] }
\* Expressions that are no arithmetic: no terms
Malformed ==
    { [terms |-> <<>>, expression |-> "1d"],
      [terms |-> <<>>, expression |-> "1d6 plus 2"] }
Expressions ==
    {[terms |-> t, expression |-> Render(t, sp)] : t \in TermLists, sp \in {"", " "}}
    \cup DocExpressions \cup Malformed

CalcACs == {10, 15, 17}
CalcBonuses == {0, 4, 8}
CalcDamages == {"1d6+2", "2d10+10 + 2d6", "1d4-5", "1d"}

\* calc.py keeps no state between calls: a behaviour of CalcSpec makes one
\* call, from a state in which no creature is looked at
CalcInit == Init /\ actions = NoAttacks

\* calc.attackodds(target)
call_attackodds ==
    /\ calc = Uncalled
    /\ \E target \in NeededRolls :
           calc' = [kind |-> "attackodds", target |-> target, out |-> Return(attackodds(target))]
    /\ UNCHANGED <<actions, last, form, match, validated, target_ac, result,
                   arg_name, found, confidence, catalog, repeated>>
    /\ UNCHANGED library_vars

\* calc.avg(expression); the terms the expression was written from are kept
\* beside it
call_avg ==
    /\ calc = Uncalled
    /\ \E e \in Expressions :
           calc' = [kind |-> "avg", expression |-> e.expression, terms |-> e.terms,
                    out |-> avg(e.expression)]
    /\ UNCHANGED <<actions, last, form, match, validated, target_ac, result,
                   arg_name, found, confidence, catalog, repeated>>
    /\ UNCHANGED library_vars

\* calc.dpr(ac, attack_bonus, damage)
call_calc_dpr ==
    /\ calc = Uncalled
    /\ \E ac \in CalcACs, attack_bonus \in CalcBonuses, damage \in CalcDamages :
           calc' = [kind |-> "dpr", ac |-> ac, attack_bonus |-> attack_bonus, damage |-> damage,
                    out |-> calc_dpr_fn(ac, attack_bonus, damage)]
    /\ UNCHANGED <<actions, last, form, match, validated, target_ac, result,
                   arg_name, found, confidence, catalog, repeated>>
    /\ UNCHANGED library_vars

CalcNext ==
    \/ call_attackodds
    \/ call_avg
    \/ call_calc_dpr

CalcSpec == CalcInit /\ [][CalcNext]_vars


(***************************************************************************)
(* Monsters (src/db_items.py, src/collection.py, src/util.py)              *)
(*                                                                         *)
(* An Actions object is a place in `heap`; a creature is the place of its  *)
(* actions, or None for a monster that has no `actions` attribute.         *)
(* Monster.dpr gives 10000ths (round4 of a number of 40ths), Monsters.dpr  *)
(* gives tenths.                                                           *)
(***************************************************************************)
MaxCreatures == 3

Aarakocra ==
    << Attack("Talon", 4, "1d4+2", Melee),
       Attack("Javelin", 4, "1d6+2", "Melee or Ranged Weapon Attack") >>
LamiaActions ==
    << Multiattack(Corpus[2]), Attack("Claws", 5, "2d10+3", Melee),
       Attack("Dagger", 5, "1d4+3", Melee) >>

\* The actions of the monsters of the database; None: no actions attribute
MonsterKinds == {Some(Aarakocra), Some(LamiaActions), Some(Slammer), Some(Passive), None}
\* The groups the model starts from: one or two different monsters
Lairs ==
    {<<k>> : k \in MonsterKinds}
    \cup {<<Some(Aarakocra), k>> : k \in {Some(Slammer), Some(Passive), None}}
MonsterACs == {10, 15}
NewDamages == {"20", "200"}
\* The attacks whose damage expression is assigned to
Assigned == {"Talon", "Slam", "Claws"}

\* calc.round4: a number of 40ths has at most three decimals, rounding it
\* to four leaves its value
round4(x) == IF IsNone(x) THEN None ELSE Some(Val(x) * 250)

\* round(x, ndigits=1) of a number of 10000ths: the nearest tenth; where two
\* tenths are equally near the float picks one by the representation error
\* of x, so both are outcomes
round1(x) ==
    LET q == x \div 1000
        r == x % 1000
    IN IF r < 500 THEN {q} ELSE IF r > 500 THEN {q + 1} ELSE {q, q + 1}

\* obj.dpr(target_ac) of the outcome obj of AttackForm(actions)
form_dpr(acts, ac, obj) ==
    IF obj.kind = "raise" THEN obj
    ELSE CHOOSE d \in {dpr(obj.v.cls, acts, ac, v) :
                          v \in {dpr_validate(obj.v.cls, obj.v.match, acts)}} : TRUE

\* Actions.dpr(target_ac): self.attack_form.dpr(target_ac)
Actions_dpr(acts, ac) ==
    CHOOSE r \in {form_dpr(acts, ac, obj) : obj \in {AttackForm_init(acts)}} : TRUE

\* Monster.dpr(target_ac) of the creature whose actions are at r in h
Monster_dpr(h, r, ac) ==
    IF IsNone(r) THEN Return(None)
    ELSE CHOOSE d \in {IF out.kind = "raise" THEN out ELSE Return(round4(out.v)) :
                          out \in {Actions_dpr(h[Val(r)], ac)}} : TRUE

RECURSIVE sum(_)
\* sum(l)
sum(l) == IF Len(l) = 0 THEN 0 ELSE Val(Head(l)) + sum(Tail(l))

\* util.careful_list_sum
careful_list_sum(l) ==
    IF \E i \in 1..Len(l) : IsNone(l[i]) THEN None ELSE Some(sum(l))

\* util.careful_sum over the outcomes of the generator's m.dpr(target_ac)
\* calls: list(l) raises the first exception a call raises
careful_sum_of(outs) ==
    IF ~IsNone(FirstRaiseOf(outs)) THEN Val(FirstRaiseOf(outs))
    ELSE Return(careful_list_sum([i \in 1..Len(outs) |-> outs[i].v]))
careful_sum(outs) == Bind(outs, careful_sum_of)

\* round(total, ndigits=1) of the outcome of careful_sum
round_total(total) ==
    IF total.kind = "raise" THEN {total}
    ELSE IF IsNone(total.v) THEN {Raise("TypeError")}
    ELSE {Return(Some(t)) : t \in round1(Val(total.v))}

\* Monsters.dpr(target_ac) of the group cs: the outcomes it can have
Monsters_dpr(h, cs, ac) ==
    UNION {round_total(careful_sum(outs)) :
               outs \in {[i \in 1..Len(cs) |-> Monster_dpr(h, cs[i], ac)]}}

\* A copy that shares the actions of the original
copy_sharing(h, r) == [heap |-> h, ref |-> r]

\* copy.deepcopy of the Actions object at r: a new object with equal
\* contents
deepcopy(h, r) == [heap |-> Append(h, h[r]), ref |-> Len(h) + 1]

\* acts[name]['damage'] = damage
set_damage(acts, name, damage) ==
    [i \in 1..Len(acts) |->
        IF acts[i].name = name
        THEN [acts[i] EXCEPT !.d = Put(acts[i].d, "damage", damage)]
        ELSE acts[i]]

\* The names of the actions of a creature that have a damage expression
DamageNames(acts) ==
    {acts[i].name : i \in {j \in 1..Len(acts) : "damage" \in DOMAIN acts[j].d}}

MonsterInit ==
    /\ actions = NoAttacks
    /\ last = "new"
    /\ form = "unset"
    /\ match = None
    /\ validated = Uncalled
    /\ target_ac = None
    /\ result = Uncalled
    /\ arg_name = None
    /\ found = Uncalled
    /\ confidence = Uncalled
    /\ catalog = Uncalled
    /\ repeated = FALSE
    /\ calc = Uncalled
    /\ \E lair \in Lairs :
          /\ heap = [i \in {j \in 1..Len(lair) : ~IsNone(lair[j])} |-> Val(lair[i])]
          /\ creatures = [i \in 1..Len(lair) |-> IF IsNone(lair[i]) THEN None ELSE Some(i)]
    /\ objects = <<>>
    /\ parsed = NotParsed
    /\ outcome = Uncalled
    /\ lines = <<>>
    /\ line_no = 0
    /\ in_sources = FALSE
    /\ text_lines = <<>>
    /\ sources = <<>>

\* Monsters.dpr is being evaluated: its generator has not called the dpr of
\* every member yet and none of the calls has raised
InGroupCall ==
    /\ outcome # Uncalled
    /\ outcome.op = "Monsters.dpr"
    /\ outcome.out = Uncalled

\* The creatures dpr can be called on next: any of them, or the next member
\* when the generator of Monsters.dpr is calling
Callees ==
    IF InGroupCall THEN {Len(outcome.outs) + 1} \cap (1..Len(creatures))
    ELSE 1..Len(creatures)
\* The target_ac of the next call
CalleeACs == IF InGroupCall THEN {outcome.ac} ELSE MonsterACs

\* Monsters(creatures).dpr(target_ac): the call begins, its generator has
\* called no member
call_Monsters_dpr ==
    /\ creatures # <<>>
    /\ ~InGroupCall
    /\ \E ac \in MonsterACs :
          outcome' = [op |-> "Monsters.dpr", ac |-> ac, outs |-> <<>>, out |-> Uncalled]
    /\ UNCHANGED <<actions_vars, monster_vars, collection_vars, parser_vars>>

\* creature.dpr(target_ac), called on a creature or by the generator
\* `m.dpr(target_ac) for m in self` of Monsters.dpr, which an exception ends
call_Monster_dpr ==
    /\ creatures # <<>>
    /\ \E c \in Callees, ac \in CalleeACs :
          \E d \in {Monster_dpr(heap, creatures[c], ac)} :
              outcome' = IF ~InGroupCall
                         THEN [op |-> "Monster.dpr", who |-> c, ac |-> ac, out |-> d]
                         ELSE IF d.kind = "raise" THEN [outcome EXCEPT !.out = d]
                         ELSE [outcome EXCEPT !.outs = Append(@, d)]
    /\ UNCHANGED <<actions_vars, monster_vars, collection_vars, parser_vars>>

\* return round(careful_sum(...), ndigits=1) once the generator is exhausted
return_Monsters_dpr ==
    /\ InGroupCall
    /\ Len(outcome.outs) = Len(creatures)
    /\ \E out \in round_total(careful_sum(outcome.outs)) :
          outcome' = [outcome EXCEPT !.out = out]
    /\ UNCHANGED <<actions_vars, monster_vars, collection_vars, parser_vars>>

\* creature.actions[name]['damage'] = damage
setitem_damage ==
    /\ creatures # <<>>
    /\ ~InGroupCall
    /\ \E c \in {i \in 1..Len(creatures) : ~IsNone(creatures[i])} :
          \E name \in DamageNames(heap[Val(creatures[c])]) \cap Assigned, damage \in NewDamages :
              /\ heap' = [heap EXCEPT ![Val(creatures[c])] = set_damage(@, name, damage)]
              /\ outcome' = [op |-> "setitem", who |-> c, name |-> name, damage |-> damage]
    /\ UNCHANGED <<actions_vars, creatures, collection_vars, parser_vars>>

\* deepcopy(creature)
call_deepcopy ==
    /\ creatures # <<>>
    /\ ~InGroupCall
    /\ Len(creatures) < MaxCreatures
    /\ \E c \in 1..Len(creatures) :
          /\ IF IsNone(creatures[c])
             THEN /\ creatures' = Append(creatures, None)
                  /\ heap' = heap
             ELSE LET new == deepcopy(heap, Val(creatures[c]))
                  IN /\ creatures' = Append(creatures, Some(new.ref))
                     /\ heap' = new.heap
          /\ outcome' = [op |-> "deepcopy", who |-> c]
    /\ UNCHANGED <<actions_vars, collection_vars, parser_vars>>

MonsterNext ==
    \/ call_Monster_dpr
    \/ call_Monsters_dpr
    \/ return_Monsters_dpr
    \/ setitem_damage
    \/ call_deepcopy

MonsterSpec == MonsterInit /\ [][MonsterNext]_vars


(***************************************************************************)
(* Collections (src/collection.py)                                         *)
(*                                                                         *)
(* A collection is a place in `objects`: its type and the list of its      *)
(* items.  An item is a database object, told from the others by its       *)
(* identity (DBItem defines no __eq__): a number, whose attributes         *)
(* ItemTable gives.  parsed[t] is the class attribute _parsed of type t:   *)
(* None while the attribute does not exist, else the place of the object   *)
(* it refers to.  The caller goes on with the collection the last call     *)
(* returned (or was called on, for append and remove, which return None);  *)
(* a collection neither the caller nor a _parsed attribute nor the last    *)
(* call refers to is freed when the next call begins.                      *)
(***************************************************************************)
MaxLen == 4

\* The attributes of the items; an attribute can be missing or None
ItemTable ==
    << [cr |-> Some(1), hp |-> Some(7)],
       [cr |-> None, hp |-> Some(3)],
       [cr |-> Some(1), hp |-> Some(3)],
       [hp |-> Some(7)],
       [level |-> Some(2)] >>
\* What parsing the database gives for each type, errata applied
Database == [Monsters |-> <<1, 2, 3>>, Spells |-> <<5>>]
\* The lists handed to Collection(l) and to extend
Lists == {<<>>, <<1, 4, 1>>, <<2, 4, 1, 3>>}
Fields == {"cr", "hp", "level"}
\* The items handed to append and to remove
NewItems == {4}
Removed == {1, 4}

\* key(o) of sorted: getattr(o, field, None)
sort_key(o, field) == IF field \in DOMAIN ItemTable[o] THEN ItemTable[o][field] ELSE None

\* Whether the sort puts an item with key k1 before an item with key k2
\* that stands before it
Precedes(k1, k2, reverse) == IF reverse THEN Val(k1) > Val(k2) ELSE Val(k1) < Val(k2)

RECURSIVE insert(_, _, _, _)
\* One step of the stable sort: x goes behind every item of the sorted list
\* l that it does not precede
insert(l, x, field, reverse) ==
    IF Len(l) = 0 THEN <<x>>
    ELSE IF Precedes(sort_key(x, field), sort_key(l[Len(l)], field), reverse)
         THEN Append(insert(SubSeq(l, 1, Len(l) - 1), x, field, reverse), l[Len(l)])
         ELSE Append(l, x)

Reversed(l) == [i \in 1..Len(l) |-> l[Len(l) + 1 - i]]
RECURSIVE list_sort_turning(_, _, _)
\* A sort that sorts upwards and turns the list round for reverse=True
list_sort_turning(l, field, reverse) ==
    IF reverse THEN Reversed(list_sort_turning(l, field, FALSE))
    ELSE IF Len(l) = 0 THEN <<>>
    ELSE insert(list_sort_turning(SubSeq(l, 1, Len(l) - 1), field, FALSE), l[Len(l)], field, FALSE)

RECURSIVE list_sort(_, _, _)
\* l.sort(key=key, reverse=reverse): stable in both directions
list_sort(l, field, reverse) ==
    IF Len(l) = 0 THEN <<>>
    ELSE insert(list_sort(SubSeq(l, 1, Len(l) - 1), field, reverse), l[Len(l)], field, reverse)

\* The list of Collection.sorted(field, reverse=reverse) of the list items
sorted_list(items, field, reverse) ==
    LET without_field == SelectSeq(items, LAMBDA n : IsNone(sort_key(n, field)))
        with_field == SelectSeq(items, LAMBDA n : ~IsNone(sort_key(n, field)))
        with_sorted == list_sort(with_field, field, reverse)
    IN IF ~reverse THEN without_field \o with_sorted ELSE with_sorted \o without_field

\* list.extend
list_extend(items, new_items) == items \o new_items

RECURSIVE extend(_, _)
\* Collection.extend: the list of self after the loop over new_items
extend(items, new_items) ==
    IF Len(new_items) = 0 THEN items
    ELSE IF Head(new_items) \notin Range(items)
         THEN extend(Append(items, Head(new_items)), Tail(new_items))
         ELSE extend(items, Tail(new_items))

\* list.remove(x): the list without the first x
remove(items, x) ==
    LET at == CHOOSE i \in 1..Len(items) : items[i] = x /\ \A j \in 1..(i - 1) : items[j] # x
    IN SubSeq(items, 1, at - 1) \o SubSeq(items, at + 1, Len(items))

\* Collection.__init__ without arguments for type t: the list of the new
\* object, and whether the object is stored as the _parsed of its class
Collection_init(objs, cached, t) ==
    IF ~IsNone(cached[t])
    THEN [items |-> objs[Val(cached[t])].items, store |-> FALSE]
    ELSE [items |-> Database[t], store |-> TRUE]

\* The places of the objects that are referred to when a call begins: by a
\* _parsed attribute or by the caller
Live ==
    {Val(parsed[t]) : t \in {u \in Types : ~IsNone(parsed[u])}}
    \cup (IF outcome = Uncalled THEN {} ELSE {outcome.ret})
\* The place an object at r has once the others are freed
Rank(r) == Cardinality({i \in Live : i <= r})
\* The objects, the _parsed attributes and the caller's collection after
\* that
Kept == [k \in 1..Cardinality(Live) |-> objects[CHOOSE i \in Live : Rank(i) = k]]
KeptParsed == [t \in Types |-> IF IsNone(parsed[t]) THEN None ELSE Some(Rank(Val(parsed[t])))]
Held == Rank(outcome.ret)

CollectionInit ==
    /\ actions = NoAttacks
    /\ last = "new"
    /\ form = "unset"
    /\ match = None
    /\ validated = Uncalled
    /\ target_ac = None
    /\ result = Uncalled
    /\ arg_name = None
    /\ found = Uncalled
    /\ confidence = Uncalled
    /\ catalog = Uncalled
    /\ repeated = FALSE
    /\ calc = Uncalled
    /\ LibraryIdle

\* Monsters() or Spells(); one behaviour uses one of the types
call_Collection ==
    /\ \E t \in Types :
          /\ IF objects = <<>> THEN TRUE ELSE objects[1].type = t
          /\ LET new == Collection_init(Kept, KeptParsed, t)
             IN /\ objects' = Append(Kept, [type |-> t, items |-> new.items])
                /\ parsed' = IF new.store
                             THEN [KeptParsed EXCEPT ![t] = Some(Len(Kept) + 1)]
                             ELSE KeptParsed
                /\ outcome' = [op |-> "Collection", type |-> t, stored |-> new.store,
                               ret |-> Len(Kept) + 1]
    /\ UNCHANGED <<actions_vars, monster_vars, parser_vars>>

\* Monsters(l) or Spells(l)
call_Collection_l ==
    /\ \E t \in Types, l \in Lists :
          /\ IF objects = <<>> THEN TRUE ELSE objects[1].type = t
          /\ objects' = Append(Kept, [type |-> t, items |-> l])
          /\ outcome' = [op |-> "Collection(l)", type |-> t, ret |-> Len(Kept) + 1]
    /\ parsed' = KeptParsed
    /\ UNCHANGED <<actions_vars, monster_vars, parser_vars>>

\* c.sorted(field, reverse=reverse) for the caller's collection c
call_sorted ==
    /\ outcome # Uncalled
    /\ \E field \in Fields, reverse \in BOOLEAN :
          /\ objects' = Append(Kept, [type |-> Kept[Held].type,
                                      items |-> sorted_list(Kept[Held].items, field, reverse)])
          /\ outcome' = [op |-> "sorted", self |-> Held, field |-> field, reverse |-> reverse,
                         before |-> Kept[Held].items, ret |-> Len(Kept) + 1]
    /\ parsed' = KeptParsed
    /\ UNCHANGED <<actions_vars, monster_vars, parser_vars>>

\* c.extend(new_items), new_items being a list or a collection
call_extend ==
    /\ outcome # Uncalled
    /\ \E new_items \in Lists \cup {Kept[d].items : d \in 1..Len(Kept)} :
          /\ Len(extend(Kept[Held].items, new_items)) <= MaxLen
          /\ objects' = [Kept EXCEPT ![Held].items = extend(@, new_items)]
          /\ outcome' = [op |-> "extend", self |-> Held, new_items |-> new_items,
                         before |-> Kept[Held].items, ret |-> Held]
    /\ parsed' = KeptParsed
    /\ UNCHANGED <<actions_vars, monster_vars, parser_vars>>

\* c.append(item) for an item that is not in c
call_append ==
    /\ outcome # Uncalled
    /\ Len(Kept[Held].items) < MaxLen
    /\ \E item \in NewItems \ Range(Kept[Held].items) :
          /\ objects' = [Kept EXCEPT ![Held].items = Append(@, item)]
          /\ outcome' = [op |-> "append", self |-> Held, item |-> item, ret |-> Held]
    /\ parsed' = KeptParsed
    /\ UNCHANGED <<actions_vars, monster_vars, parser_vars>>

\* c.remove(item) for an item that is in c
call_remove ==
    /\ outcome # Uncalled
    /\ \E item \in Range(Kept[Held].items) \cap Removed :
          /\ objects' = [Kept EXCEPT ![Held].items = remove(@, item)]
          /\ outcome' = [op |-> "remove", self |-> Held, item |-> item, ret |-> Held]
    /\ parsed' = KeptParsed
    /\ UNCHANGED <<actions_vars, monster_vars, parser_vars>>

CollectionNext ==
    \/ call_Collection
    \/ call_Collection_l
    \/ call_sorted
    \/ call_extend
    \/ call_append
    \/ call_remove

CollectionSpec == CollectionInit /\ [][CollectionNext]_vars


(***************************************************************************)
(* Predicates (src/predicates.py)                                          *)
(*                                                                         *)
(* A predicate is the record of the factory call that made it.  A value    *)
(* is an integer or a list of integers, tagged with its type; an object    *)
(* maps the names of its attributes to None or a value.                    *)
(***************************************************************************)
MaxPreds == 2

\* an integer is kept as the list of itself
IntVal(n) == [t |-> "int", v |-> <<n>>]
ListVal(l) == [t |-> "list", v |-> l]

\* The value an attribute holds; None is a value of a type of its own
value(x) == IF IsNone(x) THEN [t |-> "none", v |-> <<>>] ELSE Val(x)

\* getattr(obj, attr, None)
getattr(obj, attr) == IF attr \in DOMAIN obj THEN obj[attr] ELSE None

\* A test that takes every attribute the object has for a value
hasattr(obj, attr) == attr \in DOMAIN obj

\* _hasvalue(obj, attr)
hasvalue(obj, attr) == ~IsNone(getattr(obj, attr))

\* x < val and the like: defined between integers only
ordered(op, x, val) ==
    IF x.t # "int" \/ val.t # "int" THEN Raise("TypeError")
    ELSE Return(CASE op = "lt" -> x.v[1] < val.v[1]
                  [] op = "lte" -> x.v[1] <= val.v[1]
                  [] op = "gt" -> x.v[1] > val.v[1]
                  [] op = "gte" -> x.v[1] >= val.v[1])

\* item in container
contained(item, container) ==
    IF container.t # "list" THEN Raise("TypeError")
    ELSE Return(item.t = "int" /\ \E i \in 1..Len(container.v) : container.v[i] = item.v[1])

\* The body of the lambda eq(val), ne(val), ... return, after _hasvalue
compare(op, x, val) ==
    CASE op = "eq" -> Return(x.t = val.t /\ x.v = val.v)
      [] op = "ne" -> Return(~(x.t = val.t /\ x.v = val.v))
      [] op \in {"lt", "lte", "gt", "gte"} -> ordered(op, x, val)
      [] op = "contains" -> contained(val, x)
      [] op = "in_" -> contained(x, val)

\* eq(val)(attr, obj) and the like
comparison(p, attr, obj) ==
    IF ~hasvalue(obj, attr) THEN Return(FALSE)
    ELSE compare(p.op, value(getattr(obj, attr)), p.val)

RECURSIVE or_closure(_, _, _)
\* or_(*preds)(attr, obj)
or_closure(preds, attr, obj) ==
    IF Len(preds) = 0 THEN Return(FALSE)
    ELSE LET first == comparison(Head(preds), attr, obj)
         IN IF first.kind = "raise" THEN first
            ELSE IF first.v THEN Return(TRUE)
            ELSE or_closure(Tail(preds), attr, obj)

RECURSIVE and_closure(_, _, _)
\* and_(*preds)(attr, obj)
and_closure(preds, attr, obj) ==
    IF Len(preds) = 0 THEN Return(TRUE)
    ELSE LET first == comparison(Head(preds), attr, obj)
         IN IF first.kind = "raise" THEN first
            ELSE IF ~first.v THEN Return(FALSE)
            ELSE and_closure(Tail(preds), attr, obj)

\* A not_ that gives the negation of the conjunction
not_closure_and(preds, attr, obj) ==
    LET all == and_closure(preds, attr, obj)
    IN IF all.kind = "raise" THEN all ELSE Return(~all.v)

RECURSIVE not_closure(_, _, _)
\* not_(*preds)(attr, obj)
not_closure(preds, attr, obj) ==
    IF Len(preds) = 0 THEN Return(TRUE)
    ELSE LET first == comparison(Head(preds), attr, obj)
         IN IF first.kind = "raise" THEN first
            ELSE IF first.v THEN Return(FALSE)
            ELSE not_closure(Tail(preds), attr, obj)

\* The comparison predicates, the objects and the attribute names the
\* predicates are called with
Comparisons ==
    {[op |-> "eq", val |-> IntVal(3)], [op |-> "ne", val |-> IntVal(3)],
     [op |-> "lt", val |-> IntVal(5)], [op |-> "lte", val |-> IntVal(3)],
     [op |-> "gt", val |-> IntVal(3)], [op |-> "gte", val |-> IntVal(5)],
     [op |-> "contains", val |-> IntVal(3)], [op |-> "in_", val |-> ListVal(<<3, 5>>)]}
PredObjects ==
    {[b |-> Some(IntVal(3))], [a |-> None], [a |-> Some(IntVal(3))], [a |-> Some(IntVal(5))],
     [a |-> Some(ListVal(<<>>))], [a |-> Some(ListVal(<<5, 3>>))]}
PredAttrs == {"a"}
RECURSIVE PredLists(_)
\* The sequences of at most n comparison predicates
PredLists(n) ==
    IF n = 0 THEN {<<>>}
    ELSE PredLists(n - 1)
         \cup {Append(l, p) : l \in {m \in PredLists(n - 1) : Len(m) = n - 1}, p \in Comparisons}

PredInit ==
    /\ actions = NoAttacks
    /\ last = "new"
    /\ form = "unset"
    /\ match = None
    /\ validated = Uncalled
    /\ target_ac = None
    /\ result = Uncalled
    /\ arg_name = None
    /\ found = Uncalled
    /\ confidence = Uncalled
    /\ catalog = Uncalled
    /\ repeated = FALSE
    /\ calc = Uncalled
    /\ LibraryIdle

\* eq(val)(attr, obj), ne(val)(attr, obj), ...
call_comparison ==
    /\ outcome = Uncalled
    /\ \E p \in Comparisons, attr \in PredAttrs, obj \in PredObjects :
          outcome' = [op |-> "comparison", preds |-> <<p>>, attr |-> attr, obj |-> obj,
                      out |-> comparison(p, attr, obj)]
    /\ UNCHANGED <<actions_vars, monster_vars, collection_vars, parser_vars>>

\* or_(*preds)(attr, obj)
call_or_ ==
    /\ outcome = Uncalled
    /\ \E preds \in PredLists(MaxPreds), attr \in PredAttrs, obj \in PredObjects :
          outcome' = [op |-> "or_", preds |-> preds, attr |-> attr, obj |-> obj,
                      out |-> or_closure(preds, attr, obj)]
    /\ UNCHANGED <<actions_vars, monster_vars, collection_vars, parser_vars>>

\* and_(*preds)(attr, obj)
call_and_ ==
    /\ outcome = Uncalled
    /\ \E preds \in PredLists(MaxPreds), attr \in PredAttrs, obj \in PredObjects :
          outcome' = [op |-> "and_", preds |-> preds, attr |-> attr, obj |-> obj,
                      out |-> and_closure(preds, attr, obj)]
    /\ UNCHANGED <<actions_vars, monster_vars, collection_vars, parser_vars>>

\* not_(*preds)(attr, obj)
call_not_ ==
    /\ outcome = Uncalled
    /\ \E preds \in PredLists(MaxPreds), attr \in PredAttrs, obj \in PredObjects :
          outcome' = [op |-> "not_", preds |-> preds, attr |-> attr, obj |-> obj,
                      out |-> not_closure(preds, attr, obj)]
    /\ UNCHANGED <<actions_vars, monster_vars, collection_vars, parser_vars>>

PredNext ==
    \/ call_comparison
    \/ call_or_
    \/ call_and_
    \/ call_not_

PredSpec == PredInit /\ [][PredNext]_vars


(***************************************************************************)
(* Spell text (src/parse.py, SpellParser)                                  *)
(*                                                                         *)
(* A line is None or Some(string).  The scan is one step per line of the   *)
(* list the newlines were broken out of; the locals of _parse_spell_text   *)
(* are the variables lines, line_no (the lines read), in_sources,          *)
(* text_lines and sources.                                                 *)
(***************************************************************************)
MaxLines == 3

\* datatypes.sources: the books that are known
KnownBooks ==
    {"Acquisitions Incorporated", "Elemental Evil Player's Companion",
     "Guildmasters' Guide to Ravnica", "Lost Laboratory of Kwalish",
     "Player's Handbook", "Princes of the Apocalypse",
     "Sword Coast Adventurer's Guide", "Volo's Guide to Monsters",
     "Xanathar's Guide to Everything", "Explorer's Guide to Wildemount",
     "Wayfinder's Guide to Eberron", "Eberron: Rising from the Last War",
     "Mythic Odysseys of Theros", "Icewind Dale: Rime of the Frostmaiden",
     "Tasha's Cauldron of Everything"}

\* Reference(book, page)
Reference(book, page) == [book |-> book, page |-> page]

IsSpaceAt(s, i) == i <= Len(s) /\ Ch(s, i) \in SpaceChars
RECURSIVE skip_space(_, _)
\* \s* from position i: the position after the run of whitespace
skip_space(s, i) == IF IsSpaceAt(s, i) THEN skip_space(s, i + 1) ELSE i
RECURSIVE skip_digits(_, _)
\* \d+ from position i: the position after the run of digits
skip_digits(s, i) == IF IsDigitAt(s, i) THEN skip_digits(s, i + 1) ELSE i

RECURSIVE lstrip(_)
lstrip(s) == IF IsSpaceAt(s, 1) THEN lstrip(SubSeq(s, 2, Len(s))) ELSE s
RECURSIVE rstrip(_)
rstrip(s) == IF Len(s) > 0 /\ IsSpaceAt(s, Len(s)) THEN rstrip(SubSeq(s, 1, Len(s) - 1)) ELSE s
\* s.strip()
strip(s) == rstrip(lstrip(s))

RECURSIVE split_newline(_, _, _)
\* l.split('\n'): the pieces of l between its newlines, from position i on
\* with the piece begun at position start
split_newline(l, start, i) ==
    IF i > Len(l) THEN <<SubSeq(l, start, Len(l))>>
    ELSE IF Ch(l, i) = "\n"
         THEN <<SubSeq(l, start, i - 1)>> \o split_newline(l, i + 1, i + 1)
         ELSE split_newline(l, start, i + 1)

\* The pieces of a string as lines
as_lines(p) == [i \in 1..Len(p) |-> Some(p[i])]

\* The lines one line gives: None stays one None, a string gives its pieces
pieces(l) ==
    IF IsNone(l) THEN <<None>>
    ELSE CHOOSE r \in {as_lines(p) : p \in {split_newline(Val(l), 1, 1)}} : TRUE

RECURSIVE expand_newlines(_)
\* _expand_newlines(lines)
expand_newlines(ls) ==
    IF Len(ls) = 0 THEN <<>>
    ELSE pieces(Head(ls)) \o expand_newlines(Tail(ls))

\* p\.?\s*\d+ with the p at position p and the digits at position n of the
\* source: the positions of the page and of the end of the page, or None
page_found(source, p, n) ==
    IF p <= Len(source) /\ Ch(source, p) = "p" /\ IsDigitAt(source, n)
    THEN Some([page |-> n, end |-> skip_digits(source, n)])
    ELSE None

\* p\.?\s*\d+ matched at position p of the source
page_from(source, p) ==
    page_found(source, p,
               skip_space(source, IF p + 1 <= Len(source) /\ Ch(source, p + 1) = "."
                                  THEN p + 2 ELSE p + 1))

\* ,?\s*p\.?\s*\d+ matched at position b of the source
page_at(source, b) ==
    page_from(source,
              skip_space(source, IF b <= Len(source) /\ Ch(source, b) = "," THEN b + 1 ELSE b))

\* The positions at which (?P<book>.*?) can end
book_ends(source) == {b \in 1..(Len(source) + 1) : ~IsNone(page_at(source, b))}

\* The groups of the match whose book ends before position b and whose
\* page is at m
groups(source, b, m) ==
    [book |-> SubSeq(source, 1, b - 1),
     page |-> ParseNat(source, m.page, 0).v,
     extra |-> SubSeq(source, skip_space(source, m.end), Len(source))]

\* The match with the shortest book among the ends
shortest(source, ends) ==
    IF ends = {} THEN None
    ELSE CHOOSE r \in {Some(groups(source, b, Val(page_at(source, b)))) :
                          b \in {c \in ends : \A d \in ends : c <= d}} : TRUE

\* re.match('^\s*(?P<book>.*?),?\s*p\.?\s*(?P<page>\d+)\s*(?P<extra>.*).*$'):
\* the book is the shortest beginning after which a page follows
source_match(source) ==
    CHOOSE r \in {shortest(source, ends) : ends \in {book_ends(source)}} : TRUE

\* this_reference + rest, the references of the rest of the line
with_rest(this_reference, rest) ==
    IF rest.kind = "raise" THEN rest
    ELSE IF IsNone(rest.v) THEN Raise("TypeError")
    ELSE Return(Some(this_reference \o Val(rest.v)))

RECURSIVE parse_spell_source(_)
\* What _parse_spell_source does after the match m of the stripped source
after_match(source, m) ==
    IF ~IsNone(m)
    THEN IF Val(m).extra = ""
         THEN Return(Some(<<Reference(Val(m).book, Some(Val(m).page))>>))
         ELSE IF Ch(Val(m).extra, 1) = ","
         THEN CHOOSE r \in {with_rest(<<Reference(Val(m).book, Some(Val(m).page))>>, rest) :
                               rest \in {parse_spell_source(
                                             strip(SubSeq(Val(m).extra, 2, Len(Val(m).extra))))}} :
                  TRUE
         ELSE Return(None)
    ELSE IF source \in KnownBooks THEN Return(Some(<<Reference(source, None)>>))
    ELSE Return(Some(<<>>))

\* _parse_spell_source after source = source.strip()
parse_stripped(source) ==
    IF source = "" THEN Return(Some(<<>>))
    ELSE CHOOSE r \in {after_match(source, m) : m \in {source_match(source)}} : TRUE

\* _parse_spell_source(source): the outcome of the call, whose value is
\* Some(list of references) or None when the function returns nothing
parse_spell_source(line) ==
    CHOOSE r \in {parse_stripped(source) : source \in {strip(line)}} : TRUE

\* sources = sources + r, r the outcome of _parse_spell_source
plus_sources(srcs, r) ==
    IF r.kind = "raise" THEN r
    ELSE IF IsNone(r.v) THEN Raise("TypeError")
    ELSE Return(srcs \o Val(r.v))

\* sources += cls._parse_spell_source(source)
add_sources(srcs, source) ==
    CHOOSE a \in {plus_sources(srcs, r) : r \in {parse_spell_source(source)}} : TRUE

\* The locals after a step
Locals(in_src, text, srcs) ==
    Return([in_sources |-> in_src, text_lines |-> text, sources |-> srcs])

\* The locals after the sources were added with outcome r
with_sources(in_src, text, r) ==
    IF r.kind = "raise" THEN r ELSE Locals(in_src, text, r.v)

\* The body of the loop on a stripped line that is not None
read_line(line, in_src, text, srcs) ==
    IF SubSeq(line, 1, Min2(8, Len(line))) = "Source: "
    THEN CHOOSE a \in {with_sources(TRUE, text, r) :
                          r \in {add_sources(srcs, SubSeq(line, 9, Len(line)))}} : TRUE
    ELSE IF in_src
    THEN CHOOSE a \in {with_sources(in_src, text, r) : r \in {add_sources(srcs, line)}} : TRUE
    ELSE Locals(in_src, Append(text, line), srcs)

\* A step in which None leaves the mode as it is
loop_body_staying(l, in_src, text, srcs) ==
    IF IsNone(l) THEN Locals(in_src, text, srcs)
    ELSE CHOOSE a \in {read_line(line, in_src, text, srcs) : line \in {strip(Val(l))}} : TRUE

\* The body of the loop of _parse_spell_text on the line l
loop_body(l, in_src, text, srcs) ==
    IF IsNone(l) THEN Locals(IF in_src THEN FALSE ELSE in_src, text, srcs)
    ELSE CHOOSE a \in {read_line(line, in_src, text, srcs) : line \in {strip(Val(l))}} : TRUE

RECURSIVE join(_, _)
\* sep.join(strings)
join(sep, strings) ==
    IF Len(strings) = 0 THEN ""
    ELSE IF Len(strings) = 1 THEN strings[1]
    ELSE strings[1] \o sep \o join(sep, Tail(strings))

\* The <text> nodes of a spell
TextNodes ==
    {None,
     Some(""),
     Some("Your spell bolsters your allies."),
     Some(" Source: Player's Handbook, p. 211 "),
     Some("Xanathar's Guide to Everything p. 157, Elemental Evil Player's Companion p. 19"),
     Some("At Higher Levels: more.\nSource: Guildmasters' Guide to Ravnica"),
     Some("Player's Handbook, p. 211 (errata)"),
     Some("* Oath, Domain, or Circle of the Land spell (always prepared)")}

RECURSIVE NodeLists(_)
\* The lists of at most n nodes
NodeLists(n) ==
    IF n = 0 THEN {<<>>}
    ELSE NodeLists(n - 1)
         \cup {Append(l, t) : l \in {m \in NodeLists(n - 1) : Len(m) = n - 1}, t \in TextNodes}

\* _parse_spell_text(lines) before its loop: the locals are set and the
\* newlines of the lines are broken out
ParserInit ==
    /\ actions = NoAttacks
    /\ last = "new"
    /\ form = "unset"
    /\ match = None
    /\ validated = Uncalled
    /\ target_ac = None
    /\ result = Uncalled
    /\ arg_name = None
    /\ found = Uncalled
    /\ confidence = Uncalled
    /\ catalog = Uncalled
    /\ repeated = FALSE
    /\ calc = Uncalled
    /\ heap = <<>>
    /\ creatures = <<>>
    /\ objects = <<>>
    /\ parsed = NotParsed
    /\ outcome = Uncalled
    /\ \E ls \in NodeLists(MaxLines) : lines = expand_newlines(ls)
    /\ line_no = 0
    /\ in_sources = FALSE
    /\ text_lines = <<>>
    /\ sources = <<>>

\* One turn of the loop `for line in lines`; an exception ends the call
scan_line ==
    /\ outcome = Uncalled
    /\ line_no < Len(lines)
    /\ \E r \in {loop_body(lines[line_no + 1], in_sources, text_lines, sources)} :
          IF r.kind = "raise"
          THEN /\ outcome' = r
               /\ UNCHANGED <<line_no, in_sources, text_lines, sources>>
          ELSE /\ line_no' = line_no + 1
               /\ in_sources' = r.v.in_sources
               /\ text_lines' = r.v.text_lines
               /\ sources' = r.v.sources
               /\ UNCHANGED outcome
    /\ UNCHANGED <<lines, actions_vars, monster_vars, collection_vars>>

\* return '\n'.join(text_lines), tuple(sources)
return_text ==
    /\ outcome = Uncalled
    /\ line_no = Len(lines)
    /\ outcome' = Return([text |-> join("\n", text_lines), sources |-> sources])
    /\ UNCHANGED <<parser_vars, actions_vars, monster_vars, collection_vars>>

ParserNext ==
    \/ scan_line
    \/ return_text

ParserSpec == ParserInit /\ [][ParserNext]_vars


(***************************************************************************)
(* Properties                                                              *)
(***************************************************************************)
\* The creature has a Multiattack action that has a text
TextPresent ==
    \E i \in 1..Len(actions) :
        actions[i].name = "Multiattack" /\ "text" \in DOMAIN actions[i].d
\* that text
TheText == actions[CHOOSE i \in 1..Len(actions) : actions[i].name = "Multiattack"].d.text
\* The creature has no attack
NoCatalog == \A i \in 1..Len(actions) : ~IsAttack(actions[i])

ShapeNames == {subclasses[j].cls : j \in 1..Len(subclasses)}
\* The place of a shape in the order of declaration
Declared(cls) == CHOOSE j \in 1..Len(subclasses) : subclasses[j].cls = cls
\* The pattern of the j-th declared shape matches the whole text
Matches(j, text) ==
    subclasses[j].re.t # "None" /\ ~IsNone(fullmatch(subclasses[j].re, text))

\* What the code takes for "the fragment names this attack": the lower-case
\* name contains the lower-case fragment without its trailing "s"
\* characters, or the pair is in the alias table
Resolves(fragment, name) ==
    LET n == Lower(name)
        f == Lower(fragment)
        stem == RStrip(f, "s")
    IN \/ \E i \in 0..(Len(n) - Len(stem)) : SubSeq(n, i + 1, i + Len(stem)) = stem
       \/ f = "hooves" /\ n = "hoof"
       \/ f = "adamantine greatclub" /\ n = "greatclub"
       \/ Len(f) >= 3 /\ SubSeq(f, 1, 3) = "+1 " /\ n = SubSeq(f, 4, Len(f)) \o " +1"

\* What the documentation takes for it: the names are equal without regard
\* to case, also after one trailing "s" is taken off the fragment, or the
\* pair is in the alias table
Documented(fragment, name) ==
    LET n == Lower(name)
        f == Lower(fragment)
    IN \/ n = f
       \/ Len(f) > 0 /\ Ch(f, Len(f)) = "s" /\ n = SubSeq(f, 1, Len(f) - 1)
       \/ f = "hooves" /\ n = "hoof"
       \/ f = "adamantine greatclub" /\ n = "greatclub"
       \/ Len(f) >= 3 /\ SubSeq(f, 1, 3) = "+1 " /\ n = SubSeq(f, 4, Len(f)) \o " +1"

\* The attacks of the creature a fragment names, by their places in actions
Hits(fragment) ==
    {i \in 1..Len(actions) : IsAttack(actions[i]) /\ Resolves(fragment, actions[i].name)}

\* A name captured in the groups gd names no attack of the creature
UnresolvedCapture(gd) ==
    \E key \in DOMAIN gd :
        IsTypeKey(key) /\ ~IsNone(gd[key]) /\ Hits(Val(gd[key])) = {}

\* The pattern of the j-th declared shape matches the whole text and every
\* name it captures names an attack
ResolvingMatch(j, text) ==
    /\ subclasses[j].re.t # "None"
    /\ LET m == fullmatch(subclasses[j].re, text)
       IN ~IsNone(m) /\ ~UnresolvedCapture(Val(m).groupdict)

\* The count a num group stands for (0 for a group the pattern has not)
Count(gd, key) ==
    IF key \notin DOMAIN gd THEN 0
    ELSE IF IsNone(gd[key]) THEN 1 ELSE numberwords[Val(gd[key])]

\* The groups hold a total and counts that do not add up to it
TotalMismatch(gd) ==
    /\ "total" \in DOMAIN gd
    /\ ~IsNone(gd["total"])
    /\ \E key \in DOMAIN gd : IsNumKey(key)
    /\ Count(gd, "num1") + Count(gd, "num2") + Count(gd, "num3") # numberwords[Val(gd["total"])]

\* C1: with a multiattack text present, the shape selected is the
\* earliest-declared shape whose pattern matches the whole text: its pattern
\* matches, and the pattern of no shape declared before it does.
FirstMatchWins ==
    (last = "attack_form" /\ TextPresent) =>
        /\ form \in ShapeNames
        /\ Matches(Declared(form), TheText)
        /\ \A j \in 1..(Declared(form) - 1) : ~Matches(j, TheText)

\* AnyMelee has been selected for a text that the later-declared Named
\* matches too
FirstMatchWins_witness ==
    /\ last = "attack_form"
    /\ TextPresent
    /\ form = "AnyMelee"
    /\ Matches(Declared("Named"), TheText)

\* C2: classification never fails: for every present text, the empty one
\* and those with newlines included, one shape is selected and the
\* exception at the end of AttackForm.__init__ is not raised, Default being
\* the last shape declared and its pattern matching the text.
ClassificationNeverFails ==
    (last = "attack_form" /\ TextPresent) =>
        /\ form # "raised"
        /\ Cardinality({j \in 1..Len(subclasses) : subclasses[j].cls = form}) = 1
        /\ subclasses[Len(subclasses)].cls = "Default"
        /\ ~IsNone(fullmatch(Default_re, TheText))

\* a text holding a newline has been classified, as Default
ClassificationNeverFails_witness ==
    /\ last = "attack_form"
    /\ TextPresent
    /\ \E i \in 1..Len(TheText) : Ch(TheText, i) = "\n"
    /\ form = "Default"

\* C3: the shape selected is NoMultiattack exactly when the multiattack text
\* is absent (no Multiattack action, or one without a text).
NoMultiattackIffAbsent ==
    (form # "unset") => ((form = "NoMultiattack") <=> ~TextPresent)

\* NoMultiattack has been selected for a creature whose Multiattack action
\* has no text
NoMultiattackIffAbsent_witness ==
    /\ form = "NoMultiattack"
    /\ \E i \in 1..Len(actions) : actions[i].name = "Multiattack"

\* C4: when the text matches a shape and a name it captures names no attack
\* of the catalog, validation yields None and dpr returns None, for every
\* target defense.
UnresolvedNameGivesNone ==
    (last = "dpr" /\ ~IsNone(match) /\ UnresolvedCapture(Val(match).groupdict)) =>
        /\ validated = Return(None)
        /\ result = Return(None)

\* dpr has returned None for a text of shape Named whose name is a typo
UnresolvedNameGivesNone_witness ==
    /\ last = "dpr"
    /\ form = "Named"
    /\ ~IsNone(match)
    /\ UnresolvedCapture(Val(match).groupdict)
    /\ result = Return(None)

\* C5, as the specification states it: the shape selected is the first
\* declared shape whose pattern matches AND whose captured names all name
\* an attack; a pattern that matches with an unresolvable name is passed
\* over.
CascadeSkipsUnresolved ==
    (last = "attack_form" /\ TextPresent) =>
        /\ form \in ShapeNames
        /\ ResolvingMatch(Declared(form), TheText)
        /\ \A j \in 1..(Declared(form) - 1) : ~ResolvingMatch(j, TheText)

\* C5, as the code has it: a pattern that matches the text ends the cascade
\* also when a name it captured names no attack: no shape declared after it
\* is selected, though the pattern of Default matches too with nothing to
\* resolve, and validation of the selected shape yields None.
FirstSyntacticMatchKept ==
    (last = "validate" /\ TextPresent /\ form \in ShapeNames) =>
        \A j \in 1..Declared(form) :
            ( /\ subclasses[j].re.t # "None"
              /\ LET m == fullmatch(subclasses[j].re, TheText)
                 IN ~IsNone(m) /\ UnresolvedCapture(Val(m).groupdict) )
            => /\ j = Declared(form)
               /\ validated = Return(None)
               /\ ResolvingMatch(Len(subclasses), TheText)

\* Named has been selected and validated for a text whose name is a typo
FirstSyntacticMatchKept_witness ==
    /\ last = "validate"
    /\ form = "Named"
    /\ ~IsNone(match)
    /\ UnresolvedCapture(Val(match).groupdict)
    /\ validated = Return(None)

\* C6, as the specification states it: a fragment resolves to an attack
\* only under the documented policy (equal names, one trailing "s", alias
\* table), and resolves when some attack satisfies it.
DocumentedPolicy ==
    (last = "match_attack") =>
        /\ ~IsNone(found.v) => Documented(Val(arg_name), Val(found.v).name)
        /\ IsNone(found.v) =>
              \A i \in 1..Len(actions) :
                  IsAttack(actions[i]) => ~Documented(Val(arg_name), actions[i].name)

\* C6, as the code has it: a fragment resolves to the first attack, in the
\* order of the actions, whose lower-case name contains the lower-case
\* fragment without all its trailing "s" characters or is its alias, and to
\* None when there is no such attack.
ContainmentPolicy ==
    (last = "match_attack") =>
        LET hits == Hits(Val(arg_name))
        IN IF hits = {} THEN found = Return(None)
           ELSE found = Return(Some(actions[CHOOSE i \in hits : \A k \in hits : i <= k]))

\* the fragment "cross" has resolved to the attack Heavy Crossbow
ContainmentPolicy_witness ==
    /\ last = "match_attack"
    /\ arg_name = Some("cross")
    /\ ~IsNone(found.v)
    /\ Val(found.v).name = "Heavy Crossbow"

\* C7: when a shape captures a total and counts that do not add up to it
\* (all captured names resolving), validation still returns the Extraction
\* and dpr returns a number.
MismatchOnlyWarns ==
    ( /\ last = "dpr"
      /\ ~IsNone(match)
      /\ TotalMismatch(Val(match).groupdict)
      /\ ~UnresolvedCapture(Val(match).groupdict) )
    => /\ validated.kind = "return"
       /\ result.kind = "return"
       /\ ~IsNone(validated.v)
       /\ ~IsNone(result.v)

\* C8: dpr returns a number or None, no exception reaches the caller.
DprNeverRaises ==
    (last = "dpr") => result.kind = "return"

\* C9: with a multiattack text present and an empty attack catalog, dpr
\* returns None for every target defense, whatever the shape.
EmptyCatalogGivesNone ==
    (last = "dpr" /\ TextPresent /\ NoCatalog) => result = Return(None)

\* C10: with no Multiattack action and an empty attack catalog, validation
\* yields None and dpr returns None for every target defense.
NoMultiattackEmptyCatalog ==
    ( /\ last = "dpr"
      /\ \A i \in 1..Len(actions) : actions[i].name # "Multiattack"
      /\ NoCatalog )
    => /\ validated = Return(None)
       /\ result = Return(None)

\* dpr has returned None for a creature whose only action is no attack
NoMultiattackEmptyCatalog_witness ==
    /\ last = "dpr"
    /\ Len(actions) > 0
    /\ \A i \in 1..Len(actions) : actions[i].name # "Multiattack"
    /\ NoCatalog
    /\ result = Return(None)

(***************************************************************************)
(* Properties of calc.py                                                   *)
(***************************************************************************)
Clamp(x, lo, hi) == IF x < lo THEN lo ELSE IF x > hi THEN hi ELSE x

\* C11: the hit probability for needed roll r is clamp((21 - r)/20, 0.05,
\* 0.95) for every integer r (in 20ths: clamp(21 - r, 1, 19)): it is 0.95
\* for every r <= 2, 0.05 for every r >= 20, one 20th less for r + 1 than
\* for r in between, and never below 0.05 nor above 0.95.
HitProbabilityClamped ==
    calc.kind = "attackodds" =>
        LET r == calc.target
            p == calc.out.v
        IN /\ calc.out.kind = "return"
           /\ p = Clamp(21 - r, 1, 19)
           /\ (r <= 2 => p = 19)
           /\ (r >= 20 => p = 1)
           /\ (r >= 2 /\ r < 20 => attackodds(r + 1) = p - 1)
           /\ p >= 1
           /\ p <= 19

\* attackodds was asked for a roll past 20 and for a roll below 1, and
\* answered with the clamps
HitProbabilityClamped_witness ==
    \/ calc.kind = "attackodds" /\ calc.target = 21 /\ calc.out = Return(1)
    \/ calc.kind = "attackodds" /\ calc.target = 0 /\ calc.out = Return(19)

\* The value of a term in halves: n dice of m sides average n*(m+1)/2
TermValue(t) == t.sign * (IF t.dice THEN t.n * (t.m + 1) ELSE 2 * t.n)
RECURSIVE SumOfTerms(_)
SumOfTerms(terms) ==
    IF Len(terms) = 0 THEN 0 ELSE TermValue(terms[1]) + SumOfTerms(Tail(terms))

\* C12: the average of an expression made of terms NdM and flat integers
\* joined by + or - is the sum over the dice terms of N*(M+1)/2 plus the flat
\* modifiers, the signs applied, with nothing rounded on the way (in halves);
\* avg('1d4') = 2.5, avg('1d10+5 + 1d6') = 14.0, avg('2d10+10 + 2d6') = 28.0,
\* and an expression without dice is plain arithmetic: avg('1 - 2') = -1.
AverageIsSumOfTerms ==
    calc.kind = "avg" =>
        /\ calc.terms # <<>> => calc.out = Return(SumOfTerms(calc.terms))
        /\ calc.expression = "1d4" => calc.out = Return(5)
        /\ calc.expression = "1d10+5 + 1d6" => calc.out = Return(28)
        /\ calc.expression = "2d10+10 + 2d6" => calc.out = Return(56)
        /\ calc.expression = "1 - 2" => calc.out = Return(0 - 2)

\* avg was asked for an expression of three terms with dice of an odd
\* average, and for one with a term subtracted
AverageIsSumOfTerms_witness ==
    \/ calc.kind = "avg" /\ calc.expression = "1d10+5 + 1d6" /\ calc.out = Return(28)
    \/ /\ calc.kind = "avg"
       /\ Len(calc.terms) = 2
       /\ calc.terms[2].sign < 0
       /\ calc.terms[1].dice
       /\ calc.out.kind = "return"
       /\ calc.out.v % 2 = 1

(***************************************************************************)
(* Properties of the DPR formulas.  DPR counts 40ths.                      *)
(***************************************************************************)
\* The places in actions of the creature's attacks
CatalogPlaces == {i \in 1..Len(actions) : IsAttack(actions[i])}
\* Expected damage of one attack against target defense ac:
\* hit_probability(ac - hit_bonus) * average(damage)
Expected(a, ac) == Clamp(21 - (ac - a.d.attack_bonus), 1, 19) * avg(a.d.damage).v
\* The greatest of a non-empty set of numbers
Greatest(S) == CHOOSE x \in S : \A y \in S : y <= x
\* The best expected damage among the attacks at the given places
Best(places, ac) == Greatest({Expected(actions[i], ac) : i \in places})
\* dpr was the last call and returned a number
DprNumber == last = "dpr" /\ result.kind = "return" /\ ~IsNone(result.v)

\* C13: for the fallback shapes (NoMultiattack, Default, ByHalfSpellLevel)
\* with a non-empty catalog, dpr(target) is the maximum over all catalog
\* attacks of hit_probability(target - hit_bonus) * average(damage), with no
\* count multiplier; a single attack {+4, '1d6+2'} without Multiattack action
\* classifies as NoMultiattack and gives dpr(10) = 0.75 * 5.5 = 4.125
\* (165/40).
FallbackIsBestSingleAttack ==
    /\ (/\ last = "dpr"
        /\ form \in {"NoMultiattack", "Default", "ByHalfSpellLevel"}
        /\ CatalogPlaces # {})
       => result = Return(Some(Best(CatalogPlaces, Val(target_ac))))
    /\ (last = "dpr" /\ actions = Slammer /\ target_ac = Some(10))
       => form = "NoMultiattack" /\ result = Return(Some(165))

\* dpr was called on a creature of a fallback shape with several attacks,
\* the first of which is not the best
FallbackIsBestSingleAttack_witness ==
    /\ last = "dpr"
    /\ form = "Default"
    /\ Cardinality(CatalogPlaces) > 1
    /\ result.kind = "return"
    /\ result.v # None
    /\ Val(result.v) > Expected(actions[CHOOSE i \in CatalogPlaces : \A j \in CatalogPlaces : i <= j],
                                Val(target_ac))

\* The groups captured from the multiattack text
Groups == Val(match).groupdict
\* Every attack name the groups capture names an attack of the creature
AllResolve == \A key \in DOMAIN Groups : IsTypeKey(key) => ~IsNone(Groups[key]) /\ Hits(Val(Groups[key])) # {}
\* The attack a captured name stands for: the first attack of the catalog
\* the name resolves to
NamedPlace(key) ==
    LET hits == Hits(Val(Groups[key]))
    IN CHOOSE i \in hits : \A j \in hits : i <= j
NamedAttack(key) == actions[NamedPlace(key)]
\* count * expected damage of the n-th named sub-attack
Routine(num, type, ac) == Count(Groups, num) * Expected(NamedAttack(type), ac)

TwoNamedShapes ==
    {"ArtAAndArtB", "TwiceArtAAndArtB", "MakesAAttackAndBAttack", "MakesAAndBAttack"}

\* C14: for the shapes of two named sub-attacks (ArtAAndArtB,
\* TwiceArtAAndArtB, MakesAAttackAndBAttack, MakesAAndBAttack), whenever both
\* names resolve, dpr(target) = count1 * expected(attack1, target) + count2 *
\* expected(attack2, target), whatever total the text states.
TwoNamedSum ==
    (last = "dpr" /\ form \in TwoNamedShapes /\ AllResolve)
    => result = Return(Some(Routine("num1", "type1", Val(target_ac))
                            + Routine("num2", "type2", Val(target_ac))))

\* The text of the attack begins with the word, letter case set aside
BeginsWith(a, word) ==
    /\ "text" \in DOMAIN a.d
    /\ Len(a.d.text) >= Len(word)
    /\ Lower(SubSeq(a.d.text, 1, Len(word))) = word
MeleePlaces == {i \in CatalogPlaces : BeginsWith(actions[i], "melee")}
RangedPlaces == {i \in CatalogPlaces : BeginsWith(actions[i], "ranged")}

ChoiceShapes == {"Any", "NumWithWeapon", "AnyMelee", "AnyRanged", "WithNamed2Options"}
\* The attacks the creature chooses among, by shape
ChoiceSet ==
    CASE form \in {"Any", "NumWithWeapon"} -> CatalogPlaces
      [] form = "AnyMelee" -> MeleePlaces
      [] form = "AnyRanged" -> RangedPlaces
      [] form = "WithNamed2Options" -> {NamedPlace("type1"), NamedPlace("type2")}
\* The number of attacks the text grants
ChoiceCount ==
    IF form \in {"AnyMelee", "AnyRanged"}
    THEN Count(Groups, "num1")
    ELSE numberwords[Val(Groups["total"])]

BestOrNothing(places, ac) == IF places = {} THEN 0 ELSE Best(places, ac)
\* The two whole routines the text offers
FirstRoutine ==
    IF form = "AOrB"
    THEN Routine("num1", "type1", Val(target_ac))
    ELSE Count(Groups, "num1") * BestOrNothing(MeleePlaces, Val(target_ac))
SecondRoutine ==
    IF form = "AOrB"
    THEN Routine("num2", "type2", Val(target_ac))
    ELSE Count(Groups, "num2") * BestOrNothing(RangedPlaces, Val(target_ac))

DprNonIncreasing ==
    [][(/\ DprNumber
        /\ DprNumber'
        /\ Val(target_ac) <= Val(target_ac'))
       => Val(result'.v) <= Val(result.v)]_vars

(***************************************************************************)
(* Properties of the confidence marker, of repeated calls and of the       *)
(* catalog                                                                 *)
(***************************************************************************)
\* C18 as stated: the confidence marker is determined by the matched shape
\* alone and is one of exactly three values: '=' (exact), '>=' (lower bound)
\* for NamedAndUses, which ignores a rider ability, and '~=' (approximate)
\* for the catch-all Default.
ConfidenceAsDocumented ==
    last = "dpr_confidence" =>
        /\ confidence.kind = "return"
        /\ confidence.v \in {"=", ">=", "~="}
        /\ form = "NamedAndUses" => confidence.v = ">="
        /\ form = "Default" => confidence.v = "~="
        /\ form \notin {"NamedAndUses", "Default"} => confidence.v = "="

\* C18: the confidence marker is determined by the matched shape alone,
\* whatever the catalog: '>' for NamedAndUses, '>=' for ByHalfSpellLevel,
\* '>=~' for the catch-all Default, and '=' for every other shape.
ConfidenceByShape ==
    last = "dpr_confidence" =>
        /\ confidence.kind = "return"
        /\ form = "NamedAndUses" => confidence.v = ">"
        /\ form = "ByHalfSpellLevel" => confidence.v = ">="
        /\ form = "Default" => confidence.v = ">=~"
        /\ form \notin {"NamedAndUses", "ByHalfSpellLevel", "Default"} => confidence.v = "="

\* The marker was read from a shape that ignores a rider ability
ConfidenceByShape_witness ==
    last = "dpr_confidence" /\ form = "NamedAndUses" /\ confidence = Return(">")

CatalogIsTheAttacks ==
    last = "attacks" =>
        /\ catalog.kind = "return"
        /\ \A i \in 1..Len(actions) :
               ({"attack_bonus", "damage"} \subseteq DOMAIN actions[i].d)
               <=> (\E k \in 1..Len(catalog.v) : catalog.v[k] = actions[i])
        /\ \A k \in 1..Len(catalog.v) :
               /\ \E i \in 1..Len(actions) : actions[i] = catalog.v[k]
               /\ catalog.v[k].name # "Multiattack"
               /\ \A j \in 1..Len(catalog.v) : catalog.v[j].name = catalog.v[k].name => j = k
        /\ (\A i \in 1..Len(actions) : ~({"attack_bonus", "damage"} \subseteq DOMAIN actions[i].d))
           => catalog.v = <<>>

\* The catalog was built for a creature with a Multiattack action, an action
\* that has a hit bonus but no damage, and an attack
CatalogIsTheAttacks_witness ==
    /\ last = "attacks"
    /\ catalog.kind = "return"
    /\ Len(catalog.v) > 0
    /\ \E i \in 1..Len(actions) : actions[i].name = "Multiattack"
    /\ \E i \in 1..Len(actions) :
           "attack_bonus" \in DOMAIN actions[i].d /\ "damage" \notin DOMAIN actions[i].d

(***************************************************************************)
(* Number words                                                            *)
(***************************************************************************)
\* The cardinal a number word of the texts stands for
Cardinals == <<"one", "two", "three", "four", "five", "six">>
Cardinal(w) ==
    IF w = "once" THEN 1
    ELSE IF w = "twice" THEN 2
    ELSE CHOOSE n \in 1..Len(Cardinals) : Cardinals[n] = w

\* The groups of the match and the Extraction of the last _validate call
TheGroups == Val(match).groupdict
Extraction == Val(validated.v)
\* _validate has returned an Extraction made from the groups of a match
Extracted ==
    /\ last = "validate"
    /\ ~IsNone(match)
    /\ validated.kind = "return"
    /\ ~IsNone(validated.v)
\* The key of the Extraction a count group is stored under
CountKey(key) == "a" \o SubSeq(key, 4, Len(key)) \o "count"

\* C21: a captured number word is converted by the lookup one/once -> 1,
\* two/twice -> 2, three -> 3, four -> 4, five -> 5, six -> 6; a count group
\* of the pattern that matched nothing gives the count 1; every count and
\* total of an Extraction is an integer from 1 to 6.
NumberWordsConverted ==
    Extracted =>
        \A key \in DOMAIN TheGroups :
            /\ IsNumKey(key) =>
                  /\ CountKey(key) \in DOMAIN Extraction
                  /\ Extraction[CountKey(key)] =
                        IF IsNone(TheGroups[key]) THEN 1
                        ELSE Cardinal(Val(TheGroups[key]))
                  /\ Extraction[CountKey(key)] \in 1..6
            /\ key = "total" =>
                  /\ Extraction["total"] = Cardinal(Val(TheGroups[key]))
                  /\ Extraction["total"] \in 1..6

\* An Extraction holds the count 1 for a count group that matched nothing
\* ("attacks with its beak")
NumberWordsConverted_witness ==
    /\ Extracted
    /\ \E key \in DOMAIN TheGroups :
          /\ IsNumKey(key)
          /\ IsNone(TheGroups[key])
          /\ Extraction[CountKey(key)] = 1

\* An Extraction holds the count 6, made from "six"
SixConverted ==
    /\ Extracted
    /\ \E key \in DOMAIN TheGroups :
          /\ IsNumKey(key)
          /\ TheGroups[key] = Some("six")
          /\ Extraction[CountKey(key)] = 6

(***************************************************************************)
(* Monster-specific overrides                                              *)
(***************************************************************************)
\* The sentence each override is written for
Sentence ==
    [Centaur |-> Corpus[1], Lamia |-> Corpus[2], Manticore |-> Corpus[3],
     Orc |-> Corpus[4], Devil |-> Corpus[6], Morkoth |-> Corpus[7],
     Marut |-> Corpus[8], Hunter |-> Corpus[9], Sansuri |-> Corpus[10],
     Generator |-> Corpus[11], Stomper |-> Corpus[12]]

\* C27: an override shape (Centaur, Lamia, Manticore, Orc, Devil, Morkoth,
\* Marut, Hunter, Sansuri, Generator, Stomper) is selected if and only if
\* the multiattack text is character for character the sentence of the
\* override; a text that differs in its final punctuation is not classified
\* as the override.
OverridesAreLiteral ==
    (last = "attack_form" /\ TextPresent) =>
        \A cls \in DOMAIN Sentence : (form = cls) <=> (TheText = Sentence[cls])

\* The attack of the creature that has the name
AttackNamed(name) ==
    actions[CHOOSE i \in 1..Len(actions) : IsAttack(actions[i]) /\ actions[i].name = name]

\* C28: the Manticore override gives the greater of its two whole routines
\* with the counts of its text: one Bite and two Claws, or three Tail
\* Spikes.
ManticoreWholeRoutines ==
    (DprNumber /\ form = "Manticore" /\ actions = <<Multiattack(Corpus[3])>> \o ManticoreActions) =>
        Val(result.v) =
            Max2(Expected(AttackNamed("Bite"), Val(target_ac))
                    + 2 * Expected(AttackNamed("Claw"), Val(target_ac)),
                 3 * Expected(AttackNamed("Tail Spike"), Val(target_ac)))

(***************************************************************************)
(* Monsters                                                                *)
(***************************************************************************)
\* The Actions object of creature c
ActionsOf(c) == heap[Val(creatures[c])]
\* The creature has actions and no Multiattack among them
PlainAttacker(c) ==
    /\ ~IsNone(creatures[c])
    /\ \A i \in 1..Len(ActionsOf(c)) : ActionsOf(c)[i].name # "Multiattack"
\* The attack a with the damage expression, if it has the name
WithDamage(a, name, damage) ==
    IF a.name = name THEN [a EXCEPT !.d = Put(a.d, "damage", damage)] ELSE a
\* In 10000ths, the greatest expected damage of one attack of creature c
\* when the attack called name has the damage expression
BestWith(c, name, damage, ac) ==
    250 * Greatest({Expected(WithDamage(ActionsOf(c)[i], name, damage), ac) :
                        i \in {j \in 1..Len(ActionsOf(c)) : IsAttack(ActionsOf(c)[j])}})
\* Creatures c and k have the same actions but for a damage expression
Diverged(c, k) ==
    /\ ~IsNone(creatures[c])
    /\ ~IsNone(creatures[k])
    /\ ActionsOf(c) # ActionsOf(k)
    /\ [i \in 1..Len(ActionsOf(c)) |-> ActionsOf(c)[i].name]
          = [i \in 1..Len(ActionsOf(k)) |-> ActionsOf(k)[i].name]

\* A dpr call that follows the assignment of a damage expression to an
\* attack of the same creature gives the value of the new expression
DprIsCurrent ==
    (/\ outcome # Uncalled
     /\ outcome.op = "setitem"
     /\ outcome'.op = "Monster.dpr"
     /\ outcome'.who = outcome.who
     /\ PlainAttacker(outcome.who))
        => outcome'.out =
              Return(Some(BestWith(outcome.who, outcome.name, outcome.damage, outcome'.ac)))

\* The assignment of a damage expression to an attack of one creature
\* leaves the dpr of every other creature as it was
OthersKeepDpr ==
    (outcome'.op = "setitem" /\ heap' # heap) =>
        \A o \in (1..Len(creatures)) \ {outcome'.who} :
            \A ac \in MonsterACs :
                Monster_dpr(heap', creatures'[o], ac) = Monster_dpr(heap, creatures[o], ac)

\* C22: dpr reflects the current action data and creatures are independent:
\* after a damage expression is changed the next dpr call of the creature
\* gives the value for the new expression, and a change to the actions of a
\* deep copy (or of any other creature) leaves the dpr of the original
\* unchanged.
DprCurrentAndIndependent == [][DprIsCurrent /\ OthersKeepDpr]_vars

\* dpr has been called on a creature while another creature, which has the
\* same actions but for a damage expression, exists: a copy and its
\* original after an assignment to one of them
DprCurrentAndIndependent_witness ==
    /\ outcome # Uncalled
    /\ outcome.op = "Monster.dpr"
    /\ PlainAttacker(outcome.who)
    /\ \E k \in 1..Len(creatures) : k # outcome.who /\ Diverged(outcome.who, k)

\* The dpr of every member of the group, in 10000ths
MemberDprs(ac) == [i \in 1..Len(creatures) |-> Monster_dpr(heap, creatures[i], ac)]
\* The tenth t is a tenth nearest to x 10000ths
NearestTenth(t, x) == 1000 * t - x \in -500..500

\* C29: Monsters.dpr(target_ac) is the sum of the members' dpr rounded to
\* one decimal when every member's dpr is a number, and None, without an
\* exception, when the dpr of some member is None.
GroupDprPropagatesUnknown ==
    (/\ outcome # Uncalled
     /\ outcome.op = "Monsters.dpr"
     /\ outcome.out # Uncalled
     /\ \A i \in 1..Len(creatures) : MemberDprs(outcome.ac)[i].kind = "return")
        => LET members == MemberDprs(outcome.ac)
           IN IF \E i \in 1..Len(members) : IsNone(members[i].v)
              THEN outcome.out = Return(None)
              ELSE /\ outcome.out.kind = "return"
                   /\ ~IsNone(outcome.out.v)
                   /\ NearestTenth(Val(outcome.out.v),
                                   Sum([i \in 1..Len(members) |-> Val(members[i].v)]))

\* The same for the groups every member of which has a number for its dpr
GroupDprOfNumbers ==
    (/\ outcome # Uncalled
     /\ outcome.op = "Monsters.dpr"
     /\ outcome.out # Uncalled
     /\ \A i \in 1..Len(creatures) :
           MemberDprs(outcome.ac)[i].kind = "return" /\ ~IsNone(MemberDprs(outcome.ac)[i].v))
        => /\ outcome.out.kind = "return"
           /\ ~IsNone(outcome.out.v)
           /\ NearestTenth(Val(outcome.out.v),
                           Sum([i \in 1..Len(creatures) |-> Val(MemberDprs(outcome.ac)[i].v)]))

(***************************************************************************)
(* Collections                                                             *)
(***************************************************************************)
\* The last call was c.sorted, c.extend, a construction without arguments
Sorted == outcome # Uncalled /\ outcome.op = "sorted"
Extended == outcome # Uncalled /\ outcome.op = "extend"
Constructed0 == outcome # Uncalled /\ outcome.op = "Collection"
\* The list of the collection the last call returned
Returned == objects[outcome.ret].items
\* Two items have the same key for the field: both none, or equal values
SameKey(x, y, field) == sort_key(x, field) = sort_key(y, field)
\* Item x may stand before item y in a list sorted by the field
InOrder(x, y, field, reverse) ==
    LET kx == sort_key(x, field)
        ky == sort_key(y, field)
    IN IF reverse
       THEN /\ IsNone(kx) => IsNone(ky)
            /\ (~IsNone(kx) /\ ~IsNone(ky)) => Val(kx) >= Val(ky)
       ELSE /\ IsNone(ky) => IsNone(kx)
            /\ (~IsNone(kx) /\ ~IsNone(ky)) => Val(kx) <= Val(ky)

\* C23: sorted(field, reverse) returns a new collection of the type of self
\* and leaves self unchanged; the new list is a permutation of self, in the
\* order of the field, items without the field (key None) first when
\* ascending and last when reverse=True; the permutation keeps items with
\* equal keys in their previous order, in both directions; a field no item
\* has leaves the order unchanged.
SortedIsStablePermutation ==
    Sorted =>
        LET before == outcome.before
            after == Returned
            n == Len(before)
        IN /\ outcome.ret # outcome.self
           /\ objects[outcome.self].items = before
           /\ objects[outcome.ret].type = objects[outcome.self].type
           /\ Len(after) = n
           /\ \E from \in Permutations(1..n) :
                 /\ \A i \in 1..n : after[i] = before[from[i]]
                 /\ \A i, j \in 1..n :
                       (i < j /\ SameKey(after[i], after[j], outcome.field)) => from[i] < from[j]
           /\ \A i, j \in 1..n :
                 i < j => InOrder(after[i], after[j], outcome.field, outcome.reverse)
           /\ (\A i \in 1..n : IsNone(sort_key(before[i], outcome.field))) => after = before

\* A list with two different items of one key, and an item that lacks the
\* field, has been sorted with reverse=True into another order
SortedIsStablePermutation_witness ==
    /\ Sorted
    /\ outcome.reverse
    /\ Returned # outcome.before
    /\ \E i, j, k \in 1..Len(outcome.before) :
          /\ outcome.before[i] # outcome.before[j]
          /\ ~IsNone(sort_key(outcome.before[i], outcome.field))
          /\ SameKey(outcome.before[i], outcome.before[j], outcome.field)
          /\ IsNone(sort_key(outcome.before[k], outcome.field))

\* C24: extend(new_items) changes self in place and returns self; every
\* item of new_items is in self afterwards; the items self had keep their
\* places and multiplicity; nothing that was present is appended, and
\* nothing is appended twice, so extend with the same items once more
\* changes nothing.
ExtendAddsMissingOnce ==
    Extended =>
        LET before == outcome.before
            after == Returned
            added == (Len(before) + 1)..Len(after)
        IN /\ outcome.ret = outcome.self
           /\ Range(outcome.new_items) \subseteq Range(after)
           /\ Len(after) >= Len(before)
           /\ SubSeq(after, 1, Len(before)) = before
           /\ \A i \in added :
                 /\ after[i] \in Range(outcome.new_items)
                 /\ after[i] \notin Range(before)
                 /\ \A j \in added : after[j] = after[i] => j = i
           /\ extend(after, outcome.new_items) = after

\* A collection that holds an item twice has been extended with a list that
\* holds an item twice, items the collection has and items it has not
ExtendAddsMissingOnce_witness ==
    /\ Extended
    /\ Returned # outcome.before
    /\ \E i, j \in 1..Len(outcome.before) : i # j /\ outcome.before[i] = outcome.before[j]
    /\ \E i, j \in 1..Len(outcome.new_items) :
          i # j /\ outcome.new_items[i] = outcome.new_items[j]
    /\ Range(outcome.new_items) \cap Range(outcome.before) # {}

\* C25: a construction without arguments returns the list of all database
\* objects of the type, whatever was done in place to the collections
\* returned earlier.
NoArgumentGivesDatabase ==
    Constructed0 => Returned = Database[outcome.type]

\* The same for the constructions that parse the database
ParsingGivesDatabase ==
    (Constructed0 /\ outcome.stored) => Returned = Database[outcome.type]

(***************************************************************************)
(* Predicates                                                              *)
(***************************************************************************)
\* What each predicate of the last call gives on the (attr, obj) of the call
Members ==
    [i \in 1..Len(outcome.preds) |-> comparison(outcome.preds[i], outcome.attr, outcome.obj)]
\* Each of them gives True or False
MembersDecide == \A i \in 1..Len(Members) : Members[i].kind = "return"
\* The attribute of the call is missing from the object or is None
NoValue == outcome.attr \notin DOMAIN outcome.obj \/ outcome.obj[outcome.attr] = None

\* C26: on the same (field, object) and_ holds iff every argument holds,
\* or_ iff at least one holds, not_ iff none holds (not_ is the negation of
\* or_); every comparison predicate is False when the attribute of the
\* object is missing or None.
CombinatorsAreConnectives ==
    outcome # Uncalled =>
        /\ (outcome.op = "and_" /\ MembersDecide) =>
              outcome.out = Return(\A i \in 1..Len(Members) : Members[i].v)
        /\ (outcome.op = "or_" /\ MembersDecide) =>
              outcome.out = Return(\E i \in 1..Len(Members) : Members[i].v)
        /\ (outcome.op = "not_" /\ MembersDecide) =>
              /\ outcome.out = Return(\A i \in 1..Len(Members) : ~Members[i].v)
              /\ outcome.out = Return(~or_closure(outcome.preds, outcome.attr, outcome.obj).v)
        /\ (outcome.op = "comparison" /\ NoValue) => outcome.out = Return(FALSE)

\* not_ of two predicates has been called on an object for which one of
\* them holds and the other does not
CombinatorsAreConnectives_witness ==
    /\ outcome # Uncalled
    /\ outcome.op = "not_"
    /\ MembersDecide
    /\ Len(Members) = 2
    /\ Members[1].v # Members[2].v

\* A comparison predicate has been called on an object whose attribute is
\* None
ComparisonOfNone ==
    /\ outcome # Uncalled
    /\ outcome.op = "comparison"
    /\ outcome.attr \in DOMAIN outcome.obj
    /\ outcome.obj[outcome.attr] = None

(***************************************************************************)
(* Spell text                                                              *)
(***************************************************************************)
\* Line i of the scanned list, stripped
Stripped(i) == strip(Val(lines[i]))
\* Line i starts with 'Source: '
IsSourceHead(i) ==
    /\ ~IsNone(lines[i])
    /\ Len(Stripped(i)) >= 8
    /\ SubSeq(Stripped(i), 1, 8) = "Source: "
\* Line i is read in source mode: a line before it, or the line itself,
\* starts with 'Source: ' and no line from that one to line i is None
InSourceMode(i) ==
    \E j \in 1..i : IsSourceHead(j) /\ \A k \in j..i : ~IsNone(lines[k])
\* The lines among the first n that are not None, outside and in source mode
TextPlaces(n) == {i \in 1..n : ~IsNone(lines[i]) /\ ~InSourceMode(i)}
SourcePlaces(n) == {i \in 1..n : ~IsNone(lines[i]) /\ InSourceMode(i)}

RECURSIVE TextOf(_)
\* The stripped lines of the first n that are outside source mode, in the
\* order of the list
TextOf(n) ==
    IF n = 0 THEN <<>>
    ELSE TextOf(n - 1) \o (IF n \in TextPlaces(n) THEN <<Stripped(n)>> ELSE <<>>)

\* What line i gives as sources: the references of the line, after its
\* 'Source: ' if it has one
ReferencesOf(i) ==
    Val(parse_spell_source(IF IsSourceHead(i) THEN SubSeq(Stripped(i), 9, Len(Stripped(i)))
                           ELSE Stripped(i)).v)

RECURSIVE SourcesOf(_)
\* The references of the lines of the first n that are in source mode, in
\* the order of the list
SourcesOf(n) ==
    IF n = 0 THEN <<>>
    ELSE SourcesOf(n - 1) \o (IF n \in SourcePlaces(n) THEN ReferencesOf(n) ELSE <<>>)

\* C30: the lines are split by a two-state scan: a line that starts with
\* 'Source: ' enters source mode, the lines after it that are not None are
\* parsed as sources until a None line ends source mode, and the lines read
\* outside source mode are the text, in their order; None is never in the
\* text.
TwoStateScan ==
    /\ in_sources = (line_no > 0 /\ InSourceMode(line_no))
    /\ text_lines = TextOf(line_no)
    /\ sources = SourcesOf(line_no)
    /\ outcome.kind = "return" =>
          /\ line_no = Len(lines)
          /\ outcome.v.text = join("\n", TextOf(Len(lines)))
          /\ outcome.v.sources = SourcesOf(Len(lines))

\* A list has been split in which a footnote follows the None line that
\* follows the sources: the footnote is in the text
TwoStateScan_witness ==
    /\ outcome.kind = "return"
    /\ sources # <<>>
    /\ \E i \in 1..Len(lines) :
          /\ i > 2
          /\ IsSourceHead(i - 2)
          /\ IsNone(lines[i - 1])
          /\ ~IsNone(lines[i])
          /\ Stripped(i) = "* Oath, Domain, or Circle of the Land spell (always prepared)"
          /\ text_lines # <<>>
          /\ text_lines[Len(text_lines)] = Stripped(i)

\* A list has been split in which a line that is not None follows a line
\* of sources: it is not in the text
SourcesGoOn ==
    /\ outcome.kind = "return"
    /\ \E i \in 2..Len(lines) :
          /\ IsSourceHead(i - 1)
          /\ ~IsNone(lines[i])
          /\ ~IsSourceHead(i)
          /\ Stripped(i) # ""
          /\ \A t \in 1..Len(text_lines) : text_lines[t] # Stripped(i)

=============================================================================
